---- MODULE Spec2Model ----
(***************************************************************************)
(* Bidirectional synchronization engine of the CC Dev Atlassian            *)
(* integration: TaskMasterIntegrationHandler (handlers/taskmaster-         *)
(* integration-handler.js) on top of JiraService (services/jira-service.js)*)
(*                                                                         *)
(* JavaScript runs one callback at a time, so an async handler is a        *)
(* sequence of atomic segments separated by the awaits that wait for       *)
(* I/O: the Tracker calls made through mcpClient.invoke and the file       *)
(* reads and writes of tasks.json.  Each invocation of a handler lives in  *)
(* a slot of inv; its pc names the I/O call it is waiting for.             *)
(***************************************************************************)
EXTENDS Integers, Sequences, FiniteSets, TLC

\* ------------------------------------------------------------------ bounds
NumInv == 2          \* handler invocations that can be in flight together
MaxIssues == 2       \* issues the Tracker holds before creates are refused

\* ------------------------------------------------------------------ strings
\* A tag "a:b" is the sequence of its colon segments <<"a", "b">>, which is
\* what tag.split(':') yields; tag.startsWith('a:') is then "the first
\* segment is a and there is a second segment".
Absent == "absent"   \* undefined / null / missing field

Tag(a, b) == <<a, b>>

StartsWith(tag, prefix) == Len(tag) >= 2 /\ tag[1] = prefix

\* String.prototype.toUpperCase / toLowerCase on the segments in use.
ToUpperCase(s) ==
  CASE s = "proj"  -> "PROJ"
    [] s = "adapt" -> "ADAPT"
    [] s = "x"     -> "X"
    [] OTHER       -> s

ToLowerCase(s) ==
  CASE s = "PROJ"        -> "proj"
    [] s = "ADAPT"       -> "adapt"
    [] s = "X"           -> "x"
    [] s = "Bug"         -> "bug"
    [] s = "EPIC"        -> "epic"
    [] s = "High"        -> "high"
    [] s = "LOW"         -> "low"
    [] s = "Done"        -> "done"
    [] s = "REVIEW"      -> "review"
    [] s = "In Progress" -> "in progress"
    [] s = "toString"    -> "tostring"
    [] OTHER             -> s

\* seg.includes(s) for the segments in use: the empty string is in every
\* string, "adapt" is in "adaptive", otherwise only equal strings match.
SegIncludes(seg, s) ==
  \/ s = ""
  \/ seg = s
  \/ (seg = "adaptive" /\ s = "adapt")

\* tag.includes(s) for an s without a colon.
TagIncludes(tag, s) == \E k \in 1..Len(tag) : SegIncludes(tag[k], s)

\* JavaScript truthiness of a string-or-missing value.
Truthy(v) == v # Absent /\ v # ""

\* ------------------------------------------------------------------ tasks
\* A task of tasks.json.  hasTags = FALSE is a task without a tags array.
MkTask(id, tags, hasTags, status) ==
  [id |-> id, title |-> "Fix bug", summary |-> Absent, description |-> Absent,
   details |-> Absent, status |-> status, priority |-> "high", type |-> Absent,
   hasTags |-> hasTags, tags |-> tags]

T1 == MkTask("t-1", <<Tag("cc-dev", "proj")>>, TRUE, "pending")
T2 == MkTask("t-2", <<Tag("jira", "x")>>, TRUE, Absent)
T3 == MkTask("t-3", <<>>, TRUE, "pending")
\* A task with summary and details in place of title and description, a
\* type, and neither priority nor status.
T4 ==
  [MkTask("t-4", <<Tag("cc-dev", "proj")>>, TRUE, Absent)
     EXCEPT !.title = Absent, !.summary = "Fix later", !.details = "See log",
            !.type = "Bug", !.priority = Absent]
\* Task t-1 after its tags were removed, and a task whose only tag is plain.
T5 == MkTask("t-1", <<>>, FALSE, "pending")
T6 == MkTask("t-2", <<<<"docs">>>>, TRUE, Absent)

\* A task whose cc-dev: tag names no project: 'cc-dev:'.
T7 == MkTask("t-7", <<Tag("cc-dev", "")>>, TRUE, "pending")

\* A task without a cc-dev: tag whose tag contains the default key's letters:
\* 'jira:adaptive'.
T8 == MkTask("t-8", <<Tag("jira", "adaptive")>>, TRUE, "pending")

TaskIds == {"t-1", "t-2", "t-3", "t-4"}

\* ------------------------------------------------------------------ Tag Classifier
\* shouldSyncTask with the jira: prefix left out of the test.
shouldSyncTaskNoJira(task) ==
  IF ~task.hasTags THEN FALSE
  ELSE \E k \in 1..Len(task.tags) :
         \/ StartsWith(task.tags[k], "cc-dev")
         \/ StartsWith(task.tags[k], "atlassian")

shouldSyncTask(task) ==
  IF ~task.hasTags THEN FALSE
  ELSE \E k \in 1..Len(task.tags) :
         \/ StartsWith(task.tags[k], "cc-dev")
         \/ StartsWith(task.tags[k], "atlassian")
         \/ StartsWith(task.tags[k], "jira")

filterSyncableTasks(tasks) == SelectSeq(tasks, shouldSyncTask)

\* Index of the first tag with prefix cc-dev:, 0 when there is none.
FirstCcDev(tags) ==
  IF \E k \in 1..Len(tags) : StartsWith(tags[k], "cc-dev")
  THEN CHOOSE k \in 1..Len(tags) :
         /\ StartsWith(tags[k], "cc-dev")
         /\ \A j \in 1..(k - 1) : ~StartsWith(tags[j], "cc-dev")
  ELSE 0

\* extractProjectKeyFromTask without the toUpperCase().
extractProjectKeyFromTaskNoUpper(task) ==
  IF ~task.hasTags THEN Absent
  ELSE IF FirstCcDev(task.tags) # 0
       THEN task.tags[FirstCcDev(task.tags)][2]
       ELSE "ADAPT"

extractProjectKeyFromTask(task) ==
  IF ~task.hasTags THEN Absent
  ELSE IF FirstCcDev(task.tags) # 0
       THEN ToUpperCase(task.tags[FirstCcDev(task.tags)][2])
       ELSE "ADAPT"

\* The keys of the groups object in insertion order: the project keys of the
\* tasks in first-seen order, falsy keys left out.
RECURSIVE GroupKeys(_)
GroupKeys(tasks) ==
  IF tasks = <<>> THEN <<>>
  ELSE LET rest == GroupKeys(SubSeq(tasks, 1, Len(tasks) - 1))
           k    == extractProjectKeyFromTask(tasks[Len(tasks)])
       IN IF Truthy(k) /\ ~(\E j \in 1..Len(rest) : rest[j] = k)
          THEN Append(rest, k) ELSE rest

\* Object.entries(groups): a sequence of [key, tasks] in insertion order.
groupTasksByProject(tasks) ==
  LET keys == GroupKeys(tasks)
      InGroup(k) == LET Is(t) == extractProjectKeyFromTask(t) = k
                    IN SelectSeq(tasks, Is)
  IN [g \in 1..Len(keys) |-> [key |-> keys[g], tasks |-> InGroup(keys[g])]]

\* ------------------------------------------------------------------ Field Mapper
\* JiraService.extractProjectKeyFromTags: parts.length >= 2 always holds for a
\* tag that starts with 'cc-dev:'.
extractProjectKeyFromTags(tags) ==
  IF FirstCcDev(tags) # 0 THEN ToUpperCase(tags[FirstCcDev(tags)][2]) ELSE Absent

\* a || b on string-or-missing values.
Or(a, b) == IF Truthy(a) THEN a ELSE b

\* value?.toLowerCase(): undefined for a missing value.
OptionalToLowerCase(v) == IF v = Absent THEN Absent ELSE ToLowerCase(v)

\* The properties every object literal inherits from Object.prototype, by
\* the text the value prints as.
ObjectPrototype ==
  ("constructor" :> "[Function: Object]") @@
  ("toString" :> "[Function: toString]") @@
  ("valueOf" :> "[Function: valueOf]")

\* mapping[key] on an object literal: an own property, else an inherited
\* one, else undefined.
Lookup(mapping, key) ==
  IF key \in DOMAIN mapping THEN mapping[key]
  ELSE IF key \in DOMAIN ObjectPrototype THEN ObjectPrototype[key]
  ELSE Absent

mapTaskTypeToIssueType(taskType) ==
  LET mapping == [epic |-> "Epic", story |-> "Story", task |-> "Task",
                  bug |-> "Bug", research |-> "Research"]
  IN Or(Lookup(mapping, OptionalToLowerCase(taskType)), "Task")

mapTaskPriorityToJiraPriority(taskPriority) ==
  LET mapping == [highest |-> "Highest", high |-> "High", medium |-> "Medium",
                  low |-> "Low", lowest |-> "Lowest"]
  IN Or(Lookup(mapping, OptionalToLowerCase(taskPriority)), "Medium")

mapTaskStatusToJiraStatus(taskStatus) ==
  LET mapping == ("pending" :> "To Do") @@ ("in_progress" :> "In Progress") @@
                 ("in-progress" :> "In Progress") @@ ("review" :> "Review") @@
                 ("done" :> "Done") @@ ("completed" :> "Done") @@
                 ("cancelled" :> "Done")
  IN Or(Lookup(mapping, OptionalToLowerCase(taskStatus)), "To Do")

\* mapJiraStatusToTaskStatus with Done mapped to done.
mapJiraStatusToTaskStatusDone(jiraStatus) ==
  LET mapping == ("To Do" :> "pending") @@ ("In Progress" :> "in_progress") @@
                 ("Review" :> "review") @@ ("Done" :> "done") @@
                 ("Closed" :> "completed")
  IN Or(Lookup(mapping, jiraStatus), "pending")

mapJiraStatusToTaskStatus(jiraStatus) ==
  LET mapping == ("To Do" :> "pending") @@ ("In Progress" :> "in_progress") @@
                 ("Review" :> "review") @@ ("Done" :> "completed") @@
                 ("Closed" :> "completed")
  IN Or(Lookup(mapping, jiraStatus), "pending")

mapJiraPriorityToTaskPriority(jiraPriority) ==
  LET mapping == [Highest |-> "highest", High |-> "high", Medium |-> "medium",
                  Low |-> "low", Lowest |-> "lowest"]
  IN Or(Lookup(mapping, jiraPriority), "medium")

\* mapTaskToJiraFields without the fallback to summary and details.
mapTaskToJiraFieldsNoFallback(taskData, projectKey) ==
  [project_key |-> projectKey,
   summary     |-> taskData.title,
   description |-> Or(taskData.description, ""),
   issue_type  |-> mapTaskTypeToIssueType(taskData.type),
   priority    |-> mapTaskPriorityToJiraPriority(taskData.priority),
   name        |-> <<"PRIME">>,
   dept        |-> <<"DevOps">>]

\* The payload of mcp__atlassian__jira_create_issue.  It has no field for the
\* task id: the cross-reference custom field is not part of it.
mapTaskToJiraFields(taskData, projectKey) ==
  [project_key |-> projectKey,
   summary     |-> Or(taskData.title, taskData.summary),
   description |-> Or(Or(taskData.description, taskData.details), ""),
   issue_type  |-> mapTaskTypeToIssueType(taskData.type),
   priority    |-> mapTaskPriorityToJiraPriority(taskData.priority),
   name        |-> <<"PRIME">>,
   dept        |-> <<"DevOps">>]

\* The payload of mcp__atlassian__jira_update_issue next to issue_key; a field
\* that is left out is Absent.
mapTaskUpdatesToJiraFields(taskData) ==
  [summary     |-> IF Truthy(taskData.title) \/ Truthy(taskData.summary)
                   THEN Or(taskData.title, taskData.summary) ELSE Absent,
   description |-> IF Truthy(taskData.description) \/ Truthy(taskData.details)
                   THEN Or(taskData.description, taskData.details) ELSE Absent,
   priority    |-> IF Truthy(taskData.priority)
                   THEN mapTaskPriorityToJiraPriority(taskData.priority)
                   ELSE Absent]

\* ------------------------------------------------------------------ Tracker
\* The Tracker behind mcpClient.invoke is a sequence of issues; an issue's key
\* is its position.  An issue carries the cross-reference custom field only if
\* the payload that created it did.
XrefField == "taskMasterId"

MkTrackerIssue(xref, project, issue_type, summary, description, status, priority) ==
  [xref |-> xref, project |-> project, issue_type |-> issue_type,
   summary |-> summary, description |-> description, status |-> status,
   priority |-> priority]

\* mcp__atlassian__jira_create_issue: a new issue starts in status To Do.
TrackerCreate(payload) ==
  MkTrackerIssue(
    IF XrefField \in DOMAIN payload THEN payload[XrefField] ELSE Absent,
    payload.project_key, payload.issue_type, payload.summary,
    payload.description, "To Do", payload.priority)

\* mcp__atlassian__jira_update_issue: the fields of the payload are set.
TrackerUpdate(issue, fields) ==
  [issue EXCEPT
     !.summary     = IF fields.summary # Absent THEN fields.summary ELSE @,
     !.description = IF fields.description # Absent THEN fields.description ELSE @,
     !.priority    = IF fields.priority # Absent THEN fields.priority ELSE @]

\* mcp__atlassian__jira_transition_issue.
TrackerTransition(issue, transitionName) == [issue EXCEPT !.status = transitionName]

\* mcp__atlassian__jira_search on the cross-reference field: the keys of the
\* issues that match; the Tracker returns any one of them first.
TrackerSearch(all, taskId) == {k \in 1..Len(all) : all[k].xref = taskId}

\* ------------------------------------------------------------------ TaskStore
\* tasks.json: an object with one entry per tag, each holding a task list, and
\* a metadata entry whose "updated" stamp is rewritten on every write.  The
\* stamp is modelled by a bit that flips, which is all a reader can see of it.
MkStore(master, feature) ==
  [tags |-> [master |-> master, feature |-> feature], updated |-> 0]

\* ------------------------------------------------------------------ inputs
TagNames == {"master", "feature"}

\* The task lists a caller passes to handleTagUpdate.
Batches == {<<T1, T4, T2>>, <<T3>>, <<T7>>, <<T8>>}

\* The tasks a caller passes to handleTaskUpdate.
TaskPool == {T1, T2, T3, T5, T6}

\* Issues as delivered to handleJiraIssueUpdate: key, cross-reference field
\* and the fields the reverse sync reads.
MkIssue(key, xref, summary, status, priority) ==
  [key |-> key, xref |-> xref, summary |-> summary, description |-> Absent,
   status |-> status, priority |-> priority]

WebhookIssues ==
  {MkIssue(1, "t-1", Absent, "In Progress", Absent),
   MkIssue(1, Absent, Absent, "Done", Absent),
   MkIssue(2, "t-9", "Updated title", Absent, "High")}

\* ------------------------------------------------------------------ rate limiter
\* config.rateLimits.jira: the rate of the shipped configuration, with a
\* small bucket and a short wait.
RequestsPerSecond == 10
Burst == 2
RetryAfter == 200

NumCalls == 2        \* calls of applyRateLimit that can be in flight together
MaxClock == 600      \* the clock stops here

RateCalls == 1..NumCalls

\* The clock is read again after half a refill interval or a whole one.
Advances == {500 \div RequestsPerSecond, 1000 \div RequestsPerSecond}

Min(a, b) == IF a <= b THEN a ELSE b

\* initializeRateLimiters: a full bucket.  credited is the sum of the
\* tokensToAdd of all calls so far.
initializeRateLimiters == [tokens |-> Burst, lastRefill |-> 0, credited |-> 0]

\* applyRateLimit up to "limiter.lastRefill = now".  1000 / requestsPerSecond
\* is a whole number for the configured rates, so the quotient of the floats
\* is the quotient of the integers.
refill(l, now) ==
  LET timePassed  == now - l.lastRefill
      tokensToAdd == timePassed \div (1000 \div RequestsPerSecond)
  IN [tokens |-> Min(Burst, l.tokens + tokensToAdd), lastRefill |-> now,
      credited |-> l.credited + tokensToAdd]

\* applyRateLimit decrementing whatever it finds.
takeTokenAlways(l) == [l EXCEPT !.tokens = @ - 1]

\* The else branch of applyRateLimit: a token is taken when there is one.
takeToken(l) == IF l.tokens <= 0 THEN l ELSE [l EXCEPT !.tokens = @ - 1]

\* A call of applyRateLimit: its position, when its wait is due, the tokens
\* it found after the refill, the tokens it left when it returned or began
\* to wait, and how often it waited.
NoRateCall == [pc |-> "idle", due |-> 0, found |-> 0, left |-> 0, waits |-> 0]

\* ------------------------------------------------------------------ sync queue
MaxItems == 3        \* calls of syncTagToBoard
NumDrains == 2       \* callers of processSyncQueue that can be in flight together

Drains == 1..NumDrains

\* A caller of processSyncQueue that is not in the loop; one in the loop
\* awaits processSyncItem(item).
NoDrain == [pc |-> "idle", item |-> 0]

\* Nothing was enqueued yet.  enqueued counts the pushes (items are numbered
\* in push order), handed lists the items passed to processSyncItem in
\* order, raised holds the items whose processSyncItem threw, and
\* queuedBehind those pushed while processingSync was true.
NoQueueLog == [enqueued |-> 0, handed |-> <<>>, raised |-> {}, queuedBehind |-> {}]

\* ------------------------------------------------------------------ state
VARIABLES
  syncLocks,   \* this.syncLocks: the set of held lock keys
  inv,         \* the handler invocations, one per slot
  issues,      \* the Tracker: the sequence of its issues
  store,       \* the TaskStore: the content of tasks.json
  notif,       \* change notifications of tasks.json not yet handled
  timer,       \* this.fileChangeTimeout is pending
  webhooks,    \* keys of the issues whose change is not yet delivered
  arg,         \* the argument of a direct call of a pure function
  out,         \* the function called and what it returned
  limiter,     \* this.rateLimiters.get('jira')
  clock,       \* Date.now(), in ms since initializeRateLimiters
  rateCalls,   \* the calls of applyRateLimit('jira')
  syncQueue,   \* this.syncQueue
  processingSync,  \* this.processingSync
  drains,      \* the calls of processSyncQueue that are in their loop
  queueLog     \* what has happened to the queue's items so far

rateVars == <<limiter, clock, rateCalls>>
queueVars == <<syncQueue, processingSync, drains, queueLog>>
serviceVars == <<rateVars, queueVars>>

vars == <<syncLocks, inv, issues, store, notif, timer, webhooks, arg, out, serviceVars>>

loopVars == <<notif, timer, webhooks>>
pureVars == <<arg, out>>
handlerVars == <<syncLocks, inv, issues, store, loopVars>>

\* The handlers called directly leave the change-detection loop alone, and
\* no handler touches the argument or result of a direct function call.
otherVars == <<loopVars, pureVars, serviceVars>>

Slots == 1..NumInv

\* this.syncEnabled is set in the constructor and never changed.
syncEnabled == TRUE

LockKey(kind, name) == <<kind, name>>

NoTask == MkTask(Absent, <<>>, FALSE, Absent)
NoIssue == MkIssue(0, Absent, Absent, Absent, Absent)

\* A slot no invocation uses.  An invocation's record holds its arguments and
\* locals (key, tagName, tasks, groups, g, t, task, projectKey, existing,
\* count, issue, taskId, data, todo), its position pc, and what it has done so
\* far: acquired (it added its key), signals (what it emitted, in order),
\* calls (the Tracker calls it issued), storeOps (its file reads and writes),
\* failed (the tasks whose syncTaskToJira threw), erred (a Tracker call
\* failed), threw (a read or write of tasks.json threw), alone (no other
\* handler was called while it was in flight), cycle (which call of
\* processTaskMasterUpdates it belongs to: "initial", "timer" or "none"),
\* cycleTags (the handleTagUpdate calls that cycle has made, in order),
\* limited (applyRateLimit has resolved and no Tracker call was issued since)
\* and unlimited (the Tracker calls issued while limited was false).
Idle ==
  [kind |-> "none", pc |-> "idle", key |-> <<>>, acquired |-> FALSE,
   tagName |-> Absent, groups |-> <<>>, g |-> 0, t |-> 0, task |-> NoTask,
   projectKey |-> Absent, existing |-> 0, count |-> 0,
   issue |-> NoIssue, taskId |-> Absent, data |-> MkStore(<<>>, <<>>),
   tasks |-> <<>>, todo |-> <<>>,
   signals |-> <<>>, calls |-> <<>>, storeOps |-> <<>>, failed |-> {},
   erred |-> FALSE, threw |-> FALSE, alone |-> TRUE,
   cycle |-> "none", cycleTags |-> <<>>, limited |-> FALSE, unlimited |-> {}]

\* The timers of handleTaskMasterFileChange: the timers set and neither
\* fired nor cleared, this.fileChangeTimeout (0: undefined), and since the
\* last run of the callback began, how many notifications were handled
\* (burst); since the last setTimeout, how many runs began (runs).
MaxTimers == 2

TimerIds == 1..MaxTimers

NoTimer == [pending |-> {}, fileChangeTimeout |-> 0, burst |-> 0, runs |-> 0]

\* No call of applyRateLimit has been made.
ServiceInit ==
  /\ limiter = initializeRateLimiters
  /\ clock = 0
  /\ rateCalls = [c \in RateCalls |-> NoRateCall]
  /\ syncQueue = <<>>
  /\ processingSync = FALSE
  /\ drains = [d \in Drains |-> NoDrain]
  /\ queueLog = NoQueueLog

InFlight(r) == r.pc \notin {"idle", "done"}

Emit(r, signal) == [r EXCEPT !.signals = Append(@, signal)]

\* The handlers with the delete as the last statement of the try block rather
\* than in a finally block: an error path skips it.
DeleteAtEndOfTry(locks, r) ==
  IF r.pc = "done" /\ r.failed = {} THEN locks \ {r.key} ELSE locks

\* The finally block of the three handlers: whenever the handler is left, by
\* return or by a caught error, its key is deleted from syncLocks.
Finally(locks, r) == IF r.pc = "done" THEN locks \ {r.key} ELSE locks

\* this.syncLocks.add(key) of an invocation that got past the lock check.
Acquire(locks, r) == IF r.acquired THEN locks \cup {r.key} ELSE locks

\* One step of invocation i: its record becomes r, and the finally block runs
\* if that step left the handler.
Step(i, r) ==
  /\ inv' = [inv EXCEPT ![i] = r]
  /\ syncLocks' = Finally(syncLocks, r)

\* The synchronous start of a handler in slot i, up to its first await or its
\* return.
Enter(i, r) ==
  /\ inv' = [j \in Slots |->
               IF j = i THEN [r EXCEPT !.alone = \A k \in Slots : ~InFlight(inv[k])]
               ELSE IF InFlight(inv[j]) THEN [inv[j] EXCEPT !.alone = FALSE]
               ELSE inv[j]]
  /\ syncLocks' = Finally(Acquire(syncLocks, r), r)

\* ------------------------------------------------------------------ forward sync
\* A Tracker call is issued (this.atlassianService.invokeMCPFunction).
Call(r, op) ==
  [r EXCEPT !.calls = Append(@, <<op, r.task.id>>),
            !.unlimited = IF r.limited THEN @ ELSE @ \cup {<<op, r.task.id>>},
            !.limited = FALSE]

\* await this.atlassianService.applyRateLimit('jira') resolved, at once or
\* after the limiter's wait; the caller's next statement follows.
applyRateLimit(r) == [r EXCEPT !.limited = TRUE]

\* syncTaskToJira up to its first Tracker call: findJiraIssueForTask has sent
\* the search.
StartSync(r, task, projectKey) ==
  Call(applyRateLimit([r EXCEPT !.pc = "find", !.task = task,
                                !.projectKey = projectKey, !.existing = 0]),
       "find")

\* The loops of handleTagUpdate and syncProjectTasks: the next task of the
\* current group, else the first task of the next group, else
\* updateBoardsForTag.
NextTask(r) ==
  IF r.g >= 1 /\ r.t < Len(r.groups[r.g].tasks)
  THEN StartSync([r EXCEPT !.t = @ + 1],
                 r.groups[r.g].tasks[r.t + 1], r.groups[r.g].key)
  ELSE IF r.g < Len(r.groups)
  THEN StartSync([r EXCEPT !.g = @ + 1, !.t = 1],
                 r.groups[r.g + 1].tasks[1], r.groups[r.g + 1].key)
  ELSE [r EXCEPT !.pc = "boards"]

\* syncProjectTasks without the try/catch around syncTaskToJira: the error
\* leaves the loops and reaches the catch block of handleTagUpdate.
syncProjectTasksNoCatch(r, threw) ==
  IF threw
  THEN [Emit(r, [name |-> "tag:sync:error", tagName |-> r.tagName,
                 error |-> "error"])
          EXCEPT !.pc = "done", !.failed = @ \cup {r.task.id}]
  ELSE NextTask(r)

\* syncProjectTasks after syncTaskToJira(task, projectKey) ended: an error is
\* caught and logged, and the loop goes on.
syncProjectTasks(r, threw) ==
  NextTask(IF threw THEN [r EXCEPT !.failed = @ \cup {r.task.id}] ELSE r)

\* handleTaskUpdate after syncTaskToJira(taskData) ended: task:synced, or the
\* catch block's task:sync:error.
handleTaskUpdateEnd(r, threw) ==
  IF threw
  THEN [Emit(r, [name |-> "task:sync:error", taskId |-> r.task.id,
                 error |-> "error"])
          EXCEPT !.pc = "done", !.failed = @ \cup {r.task.id}]
  ELSE [Emit(r, [name |-> "task:synced", taskId |-> r.task.id,
                 tagName |-> r.tagName])
          EXCEPT !.pc = "done"]

TaskEnded(r, threw) ==
  IF r.kind = "tag" THEN syncProjectTasks(r, threw)
                    ELSE handleTaskUpdateEnd(r, threw)

\* The tags of taskData after the "temporarily add project tag" block.
WithProjectTag(task, projectKey) ==
  IF ~Truthy(projectKey) THEN task
  ELSE LET tags == IF task.hasTags THEN task.tags ELSE <<>>
           lower == ToLowerCase(projectKey)
       IN [task EXCEPT
             !.hasTags = TRUE,
             !.tags = IF \E k \in 1..Len(tags) : TagIncludes(tags[k], lower)
                      THEN tags ELSE Append(tags, Tag("cc-dev", lower))]

\* syncTaskToJira from the result of findJiraIssueForTask (existing = 0: null)
\* to its next Tracker call.  createJiraIssueFromTask throws before any call
\* when the tags yield no project key.
syncTaskToJira(r, existing) ==
  IF existing # 0
  THEN Call(applyRateLimit([r EXCEPT !.pc = "update", !.existing = existing]),
            "update")
  ELSE LET task == WithProjectTag(r.task, r.projectKey)
           r1   == [r EXCEPT !.task = task]
       IN IF ~Truthy(extractProjectKeyFromTags(task.tags))
          THEN TaskEnded(r1, TRUE)
          ELSE Call(applyRateLimit([r1 EXCEPT !.pc = "create"]), "create")

\* updateJiraIssueFromTask with the status update done unconditionally.
updateJiraIssueFromTaskAlways(r) ==
  Call([r EXCEPT !.pc = "transition"], "transition")

\* updateJiraIssueFromTask after the update call resolved.
updateJiraIssueFromTask(r) ==
  IF Truthy(r.task.status)
  THEN Call([r EXCEPT !.pc = "transition"], "transition")
  ELSE TaskEnded(r, FALSE)

\* handleTagUpdate(tagName, tasks) from its call to its first await or its
\* return; base holds what the caller keeps across the call.
handleTagUpdateStart(base, tagName, tasks) ==
  LET key == LockKey("tag", tagName)
      r0  == [base EXCEPT !.kind = "tag", !.key = key, !.tagName = tagName,
                          !.tasks = tasks]
      syncableTasks == filterSyncableTasks(tasks)
      r1  == [r0 EXCEPT !.acquired = TRUE, !.count = Len(syncableTasks)]
  IN IF ~syncEnabled \/ key \in syncLocks
     THEN [r0 EXCEPT !.pc = "done"]
     ELSE IF Len(syncableTasks) = 0
     THEN [r1 EXCEPT !.pc = "done"]
     ELSE NextTask([r1 EXCEPT !.groups = groupTasksByProject(syncableTasks)])

handleTagUpdate(i) ==
  /\ inv[i].pc = "idle"
  /\ \E tagName \in TagNames, tasks \in Batches :
       Enter(i, handleTagUpdateStart(Idle, tagName, tasks))
  /\ UNCHANGED <<issues, store, otherVars>>

handleTaskUpdate(i) ==
  /\ inv[i].pc = "idle"
  /\ \E taskData \in TaskPool :
       LET key == LockKey("task", taskData.id)
           r0  == [Idle EXCEPT !.kind = "task", !.key = key, !.task = taskData,
                               !.tagName = "master"]
           r1  == [r0 EXCEPT !.acquired = TRUE]
       IN IF ~syncEnabled \/ key \in syncLocks
          THEN Enter(i, [r0 EXCEPT !.pc = "done"])
          ELSE IF ~shouldSyncTask(taskData)
          THEN Enter(i, [r1 EXCEPT !.pc = "done"])
          ELSE Enter(i, StartSync(r1, taskData, Absent))
  /\ UNCHANGED <<issues, store, otherVars>>

\* findJiraIssueForTask: the search resolved; with several matches the Tracker
\* decides which comes first.
FindOk(i) ==
  /\ inv[i].pc = "find"
  /\ LET found == TrackerSearch(issues, inv[i].task.id)
     IN \E k \in (IF found = {} THEN {0} ELSE found) :
          Step(i, syncTaskToJira(inv[i], k))
  /\ UNCHANGED <<issues, store, otherVars>>

\* findJiraIssueForTask: the search failed; the catch block returns null.
FindError(i) ==
  /\ inv[i].pc = "find"
  /\ Step(i, syncTaskToJira([inv[i] EXCEPT !.erred = TRUE], 0))
  /\ UNCHANGED <<issues, store, otherVars>>

\* The update call resolved: the Tracker has applied it.
UpdateResolved(i) ==
  /\ inv[i].pc = "update"
  /\ issues' = [issues EXCEPT ![inv[i].existing] =
                  TrackerUpdate(@, mapTaskUpdatesToJiraFields(inv[i].task))]
  /\ Step(i, updateJiraIssueFromTask(inv[i]))
  /\ UNCHANGED store

UpdateOk(i) == UpdateResolved(i) /\ UNCHANGED otherVars

UpdateError(i) ==
  /\ inv[i].pc = "update"
  /\ Step(i, TaskEnded([inv[i] EXCEPT !.erred = TRUE], TRUE))
  /\ UNCHANGED <<issues, store, otherVars>>

\* updateJiraIssueStatus: the transition call resolved.
TransitionResolved(i) ==
  /\ inv[i].pc = "transition"
  /\ issues' = [issues EXCEPT ![inv[i].existing] =
                  TrackerTransition(@, mapTaskStatusToJiraStatus(inv[i].task.status))]
  /\ Step(i, TaskEnded(inv[i], FALSE))
  /\ UNCHANGED store

TransitionOk(i) == TransitionResolved(i) /\ UNCHANGED otherVars

\* updateJiraIssueStatus: the catch block only warns.
TransitionError(i) ==
  /\ inv[i].pc = "transition"
  /\ Step(i, TaskEnded([inv[i] EXCEPT !.erred = TRUE], FALSE))
  /\ UNCHANGED <<issues, store, otherVars>>

CreateOk(i) ==
  /\ inv[i].pc = "create"
  /\ Len(issues) < MaxIssues
  /\ issues' = Append(issues,
                      TrackerCreate(mapTaskToJiraFields(inv[i].task,
                         extractProjectKeyFromTags(inv[i].task.tags))))
  /\ Step(i, TaskEnded(inv[i], FALSE))
  /\ UNCHANGED <<store, otherVars>>

CreateError(i) ==
  /\ inv[i].pc = "create"
  /\ Step(i, TaskEnded([inv[i] EXCEPT !.erred = TRUE], TRUE))
  /\ UNCHANGED <<issues, store, otherVars>>

\* handleTagUpdate after updateBoardsForTag: tag:synced, then the finally.
BoardsDone(i) ==
  /\ inv[i].pc = "boards"
  /\ Step(i, [Emit(inv[i], [name |-> "tag:synced", tagName |-> inv[i].tagName,
                            taskCount |-> inv[i].count])
                EXCEPT !.pc = "done"])
  /\ UNCHANGED <<issues, store, otherVars>>

\* The caller has the result; the slot is free for another invocation.
Return(i) ==
  /\ inv[i].pc = "done"
  /\ inv[i].todo = <<>>
  /\ inv' = [inv EXCEPT ![i] = Idle]
  /\ UNCHANGED <<syncLocks, issues, store, otherVars>>

\* ------------------------------------------------------------------ reverse sync
\* masterTasks.findIndex(task => task.id.toString() === taskId.toString()):
\* the first position with that id, 0 for -1.
FindIndex(tasks, taskId) ==
  IF \E k \in 1..Len(tasks) : tasks[k].id = taskId
  THEN CHOOSE k \in 1..Len(tasks) :
         /\ tasks[k].id = taskId
         /\ \A j \in 1..(k - 1) : tasks[j].id # taskId
  ELSE 0

\* updateTaskMasterTask noting the sync in details as well.
MapJiraFieldsBackWithDetails(task, issueData) ==
  [task EXCEPT !.title = IF Truthy(issueData.summary) THEN issueData.summary ELSE @,
               !.details = "Updated from Jira",
               !.status = IF Truthy(issueData.status)
                          THEN mapJiraStatusToTaskStatus(issueData.status) ELSE @]

\* "Map Jira fields back to TaskMaster" of updateTaskMasterTask.
MapJiraFieldsBack(task, issueData) ==
  LET t1 == IF Truthy(issueData.summary) /\ issueData.summary # task.title
            THEN [task EXCEPT !.title = issueData.summary] ELSE task
      t2 == IF Truthy(issueData.description)
               /\ issueData.description # t1.description
            THEN [t1 EXCEPT !.description = issueData.description] ELSE t1
      t3 == IF Truthy(issueData.status)
            THEN [t2 EXCEPT !.status = mapJiraStatusToTaskStatus(issueData.status)]
            ELSE t2
  IN IF Truthy(issueData.priority)
     THEN [t3 EXCEPT !.priority = mapJiraPriorityToTaskPriority(issueData.priority)]
     ELSE t3

\* handleJiraIssueUpdate with a catch block that only logs.
handleJiraIssueUpdateEndSilent(r, threw) ==
  IF threw
  THEN [r EXCEPT !.pc = "done", !.threw = TRUE]
  ELSE [Emit(r, [name |-> "jira:synced", issueKey |-> r.issue.key,
                 taskId |-> r.taskId])
          EXCEPT !.pc = "done"]

\* handleJiraIssueUpdate after updateTaskMasterTask ended: jira:synced, or the
\* catch block's jira:sync:error.
handleJiraIssueUpdateEnd(r, threw) ==
  IF threw
  THEN [Emit(r, [name |-> "jira:sync:error", issueKey |-> r.issue.key,
                 error |-> "error"])
          EXCEPT !.pc = "done", !.threw = TRUE]
  ELSE [Emit(r, [name |-> "jira:synced", issueKey |-> r.issue.key,
                 taskId |-> r.taskId])
          EXCEPT !.pc = "done"]

\* updateTaskMasterTask from the parsed file to writeFile; a task that is not
\* in the master list ends it without a write.
updateTaskMasterTask(r, tasksData) ==
  LET masterTasks == tasksData.tags.master
      taskIndex   == FindIndex(masterTasks, r.taskId)
  IN IF taskIndex = 0
     THEN handleJiraIssueUpdateEnd(r, FALSE)
     ELSE [r EXCEPT
             !.pc = "write",
             !.storeOps = Append(@, "write"),
             !.data = [tags |-> [tasksData.tags EXCEPT
                          !.master[taskIndex] =
                             MapJiraFieldsBack(masterTasks[taskIndex], r.issue)],
                       updated |-> 1 - tasksData.updated]]

\* handleJiraIssueUpdate(issueData) from its call to readFile or its return.
handleJiraIssueUpdateStart(issueData) ==
  LET key == LockKey("jira", issueData.key)
      r0  == [Idle EXCEPT !.kind = "jira", !.key = key, !.issue = issueData,
                          !.taskId = issueData.xref]
  IN IF ~syncEnabled \/ ~Truthy(r0.taskId) \/ key \in syncLocks
     THEN [r0 EXCEPT !.pc = "done"]
     ELSE [r0 EXCEPT !.acquired = TRUE, !.pc = "read", !.storeOps = <<"read">>]

handleJiraIssueUpdate(i) ==
  /\ inv[i].pc = "idle"
  /\ \E issueData \in WebhookIssues : Enter(i, handleJiraIssueUpdateStart(issueData))
  /\ UNCHANGED <<issues, store, otherVars>>

ReadOk(i) ==
  /\ inv[i].pc = "read"
  /\ Step(i, updateTaskMasterTask(inv[i], store))
  /\ UNCHANGED <<issues, store, otherVars>>

ReadError(i) ==
  /\ inv[i].pc = "read"
  /\ Step(i, handleJiraIssueUpdateEnd(inv[i], TRUE))
  /\ UNCHANGED <<issues, store, otherVars>>

\* writeFile resolved: tasks.json holds the data this invocation read and
\* changed.
WriteResolved(i) ==
  /\ inv[i].pc = "write"
  /\ store' = inv[i].data
  /\ Step(i, handleJiraIssueUpdateEnd(inv[i], FALSE))
  /\ UNCHANGED issues

WriteOk(i) == WriteResolved(i) /\ UNCHANGED otherVars

WriteError(i) ==
  /\ inv[i].pc = "write"
  /\ Step(i, handleJiraIssueUpdateEnd(inv[i], TRUE))
  /\ UNCHANGED <<issues, store, otherVars>>

\* ------------------------------------------------------------------ specification
\* No direct function call: no argument, no result.
NoArg == [task |-> NoTask, value |-> Absent]
NoOut == [fn |-> "none", bool |-> FALSE, str |-> Absent, groups |-> <<>>]

\* The Tracker may already hold issues cross-referenced to tasks t-1 and t-4.
InitialIssues ==
  {<<>>,
   <<MkTrackerIssue("t-1", "PROJ", "Task", "Old title", "", "To Do", "High"),
     MkTrackerIssue("t-4", "PROJ", "Bug", "Old title", "", "To Do", "High")>>}

Init ==
  /\ syncLocks = {}
  /\ inv = [i \in Slots |-> Idle]
  /\ issues \in InitialIssues
  /\ store = MkStore(<<T1, T3>>, <<T2>>)
  /\ notif = 0
  /\ timer = NoTimer
  /\ webhooks = {}
  /\ arg = NoArg
  /\ out = NoOut
  /\ ServiceInit

Next ==
  \E i \in Slots :
    \/ handleTagUpdate(i)
    \/ handleTaskUpdate(i)
    \/ handleJiraIssueUpdate(i)
    \/ FindOk(i)
    \/ FindError(i)
    \/ UpdateOk(i)
    \/ UpdateError(i)
    \/ TransitionOk(i)
    \/ TransitionError(i)
    \/ CreateOk(i)
    \/ CreateError(i)
    \/ BoardsDone(i)
    \/ ReadOk(i)
    \/ ReadError(i)
    \/ WriteOk(i)
    \/ WriteError(i)
    \/ Return(i)

Spec == Init /\ [][Next]_vars

\* ------------------------------------------------------------------ closed loop
\* The change-detection loop with its environment closed: fs.watch reports
\* every write of tasks.json, and the Tracker delivers every change of an
\* issue back to handleJiraIssueUpdate.
MaxNotif == 2        \* change notifications that can be pending together

\* Object.entries(tasksData) without the metadata entry, master first.
TagEntries(tasksData) ==
  <<[tagName |-> "master", tasks |-> tasksData.tags.master],
    [tagName |-> "feature", tasks |-> tasksData.tags.feature]>>

\* The issue as the Tracker sends it to the webhook.
IssueData(key) ==
  [key |-> key, xref |-> issues[key].xref, summary |-> issues[key].summary,
   description |-> issues[key].description, status |-> issues[key].status,
   priority |-> issues[key].priority]

\* setTimeout returns a handle no earlier call returned.
NewTimer(pending, last) ==
  CHOOSE id \in TimerIds \ (pending \cup {last}) :
    \A other \in TimerIds \ (pending \cup {last}) : id <= other

\* The timer state after setTimeout(..., 1000), called with these timers
\* pending.
SetTimeout(pending) ==
  LET id == NewTimer(pending, timer.fileChangeTimeout)
  IN [pending |-> pending \cup {id}, fileChangeTimeout |-> id,
      burst |-> IF timer.pending = {} THEN 1
                ELSE IF timer.burst < MaxNotif THEN timer.burst + 1
                ELSE timer.burst,
      runs |-> 0]

\* handleTaskMasterFileChange without the clearTimeout.
handleTaskMasterFileChangeNoClear ==
  /\ notif > 0
  /\ TimerIds \ (timer.pending \cup {timer.fileChangeTimeout}) # {}
  /\ notif' = notif - 1
  /\ timer' = SetTimeout(timer.pending)
  /\ UNCHANGED <<syncLocks, inv, issues, store, webhooks, pureVars, serviceVars>>

\* handleTaskMasterFileChange: clearTimeout, then setTimeout(..., 1000).
handleTaskMasterFileChange ==
  /\ notif > 0
  /\ TimerIds \ (timer.pending \cup {timer.fileChangeTimeout}) # {}
  /\ notif' = notif - 1
  /\ timer' = SetTimeout(timer.pending \ {timer.fileChangeTimeout})
  /\ UNCHANGED <<syncLocks, inv, issues, store, webhooks, pureVars, serviceVars>>

\* processTaskMasterUpdates from its call to readFile.
processTaskMasterUpdatesStart(cycle) ==
  [Idle EXCEPT !.kind = "cycle", !.pc = "cycleRead", !.storeOps = <<"read">>,
               !.cycle = cycle]

\* A timer fires: processTaskMasterUpdates starts and waits for readFile.
TimerFire(i) ==
  /\ inv[i].pc = "idle"
  /\ \E id \in timer.pending :
       timer' = [timer EXCEPT !.pending = @ \ {id},
                              !.runs = IF @ < MaxTimers THEN @ + 1 ELSE @]
  /\ inv' = [inv EXCEPT ![i] = processTaskMasterUpdatesStart("timer")]
  /\ UNCHANGED <<syncLocks, issues, store, notif, webhooks, pureVars, serviceVars>>

\* processTaskMasterUpdates: the file is read and parsed; the tags to sync
\* are those of this snapshot.
processTaskMasterUpdates(i) ==
  /\ inv[i].pc = "cycleRead"
  /\ inv' = [inv EXCEPT ![i] = [@ EXCEPT !.pc = "done", !.data = store,
                                         !.todo = TagEntries(store)]]
  /\ UNCHANGED <<syncLocks, issues, store, otherVars>>

\* readFile or JSON.parse threw: the catch block logs and the cycle is over.
CycleReadError(i) ==
  /\ inv[i].pc = "cycleRead"
  /\ inv' = [inv EXCEPT ![i] = [@ EXCEPT !.pc = "done", !.threw = TRUE]]
  /\ UNCHANGED <<syncLocks, issues, store, otherVars>>

\* What processTaskMasterUpdates keeps across a call of handleTagUpdate; the
\* call is noted with its arguments and with whether the call before it had a
\* task that failed.
CycleBase(r) ==
  [Idle EXCEPT !.todo = Tail(r.todo), !.cycle = r.cycle, !.data = r.data,
               !.cycleTags = Append(r.cycleTags,
                                    [tagName |-> Head(r.todo).tagName,
                                     tasks |-> Head(r.todo).tasks,
                                     afterFailure |-> r.failed # {}])]

\* processTaskMasterUpdates leaving its loop when a tag had a failed task.
CycleNextStopOnError(i) ==
  /\ inv[i].pc = "done"
  /\ inv[i].todo # <<>>
  /\ IF inv[i].failed # {}
     THEN /\ inv' = [inv EXCEPT ![i] = [@ EXCEPT !.todo = <<>>]]
          /\ UNCHANGED syncLocks
     ELSE Enter(i, handleTagUpdateStart(CycleBase(inv[i]),
                                        Head(inv[i].todo).tagName,
                                        Head(inv[i].todo).tasks))
  /\ UNCHANGED <<issues, store, otherVars>>

\* processTaskMasterUpdates calls handleTagUpdate for its next tag.
CycleNext(i) ==
  /\ inv[i].pc = "done"
  /\ inv[i].todo # <<>>
  /\ Enter(i, handleTagUpdateStart(CycleBase(inv[i]),
                                   Head(inv[i].todo).tagName,
                                   Head(inv[i].todo).tasks))
  /\ UNCHANGED <<issues, store, otherVars>>

\* A Tracker write is delivered back once per change: the call that makes the
\* next change of an issue resolves after the delivery of the previous one.
LoopUpdateOk(i) ==
  /\ inv[i].existing \notin webhooks
  /\ UpdateResolved(i)
  /\ webhooks' = webhooks \cup {inv[i].existing}
  /\ UNCHANGED <<notif, timer, pureVars, serviceVars>>

LoopTransitionOk(i) ==
  /\ inv[i].existing \notin webhooks
  /\ TransitionResolved(i)
  /\ webhooks' = webhooks \cup {inv[i].existing}
  /\ UNCHANGED <<notif, timer, pureVars, serviceVars>>

\* The Tracker delivers an issue change: the webhook calls
\* handleJiraIssueUpdate with the issue as it is now.
DeliverWebhook(i) ==
  /\ inv[i].pc = "idle"
  /\ \E key \in webhooks :
       /\ webhooks' = webhooks \ {key}
       /\ Enter(i, handleJiraIssueUpdateStart(IssueData(key)))
  /\ UNCHANGED <<issues, store, notif, timer, pureVars, serviceVars>>

\* writeFile resolved: fs.watch reports the change of tasks.json.
LoopWriteOk(i) ==
  /\ notif < MaxNotif
  /\ WriteResolved(i)
  /\ notif' = notif + 1
  /\ UNCHANGED <<timer, webhooks, pureVars, serviceVars>>

\* One external edit of task t-1, which has its issue: one notification.
LoopInit ==
  /\ syncLocks = {}
  /\ inv = [i \in Slots |-> Idle]
  /\ issues = <<MkTrackerIssue("t-1", "PROJ", "Task", "Fix bug", "", "To Do",
                               "High")>>
  /\ store = MkStore(<<T1>>, <<>>)
  /\ notif = 1
  /\ timer = NoTimer
  /\ webhooks = {}
  /\ arg = NoArg
  /\ out = NoOut
  /\ ServiceInit

LoopStep(i) ==
  \/ TimerFire(i)
  \/ processTaskMasterUpdates(i)
  \/ CycleNext(i)
  \/ FindOk(i)
  \/ LoopUpdateOk(i)
  \/ LoopTransitionOk(i)
  \/ BoardsDone(i)
  \/ DeliverWebhook(i)
  \/ ReadOk(i)
  \/ LoopWriteOk(i)
  \/ Return(i)

LoopNext == handleTaskMasterFileChange \/ \E i \in Slots : LoopStep(i)

\* The event loop runs every callback that is ready, and every call resolves.
LoopSpec ==
  /\ LoopInit
  /\ [][LoopNext]_vars
  /\ WF_vars(handleTaskMasterFileChange)
  /\ \A i \in Slots : WF_vars(LoopStep(i))

\* ------------------------------------------------------------------ watching
\* initialize() has set up the watcher and called performInitialSync, whose
\* processTaskMasterUpdates waits for readFile; meanwhile tasks.json can be
\* edited from outside and the Tracker's replies can be errors.
ExternalEdit ==
  /\ notif < MaxNotif
  /\ notif' = notif + 1
  /\ store' = [store EXCEPT
                 !.tags.master = IF \E k \in 1..Len(@) : @[k].id = T4.id
                                 THEN @ ELSE Append(@, T4)]
  /\ UNCHANGED <<syncLocks, inv, issues, timer, webhooks, pureVars, serviceVars>>

WatchInit ==
  /\ syncLocks = {}
  /\ inv = [i \in Slots |-> IF i = 1 THEN processTaskMasterUpdatesStart("initial")
                            ELSE Idle]
  /\ issues = <<MkTrackerIssue("t-1", "PROJ", "Task", "Fix bug", "", "To Do",
                               "High")>>
  /\ store = MkStore(<<T1>>, <<T2>>)
  /\ notif = 0
  /\ timer = NoTimer
  /\ webhooks = {}
  /\ arg = NoArg
  /\ out = NoOut
  /\ ServiceInit

WatchStep(i) ==
  \/ TimerFire(i)
  \/ processTaskMasterUpdates(i)
  \/ CycleReadError(i)
  \/ CycleNext(i)
  \/ FindOk(i)
  \/ FindError(i)
  \/ UpdateOk(i)
  \/ UpdateError(i)
  \/ TransitionOk(i)
  \/ TransitionError(i)
  \/ CreateOk(i)
  \/ CreateError(i)
  \/ BoardsDone(i)
  \/ Return(i)

WatchNext ==
  \/ ExternalEdit
  \/ handleTaskMasterFileChange
  \/ \E i \in Slots : WatchStep(i)

WatchSpec == WatchInit /\ [][WatchNext]_vars

\* ------------------------------------------------------------------ reverse sync alone
\* The webhook delivers issue updates while tasks.json holds t-1 and t-3
\* under master and t-2 under feature.  The first issue is the one of the
\* bidirectional-sync test; the second has another key and names another
\* task of master; the third names the task under feature; the fourth names
\* a task that is not in the store.
RevIssues ==
  {[MkIssue(1, "t-1", "Updated from Jira", "In Progress", "High")
      EXCEPT !.description = "This task was updated in Jira"],
   MkIssue(2, "t-3", Absent, "Done", "Low"),
   MkIssue(3, "t-2", "Updated from Jira", Absent, Absent),
   MkIssue(4, "t-9", "Updated from Jira", "Done", Absent)}

WebhookDelivers(i) ==
  /\ inv[i].pc = "idle"
  /\ \E issueData \in RevIssues : Enter(i, handleJiraIssueUpdateStart(issueData))
  /\ UNCHANGED <<issues, store, otherVars>>

RevInit ==
  /\ syncLocks = {}
  /\ inv = [i \in Slots |-> Idle]
  /\ issues = <<>>
  /\ store = MkStore(<<T1, T3>>, <<T2>>)
  /\ notif = 0
  /\ timer = NoTimer
  /\ webhooks = {}
  /\ arg = NoArg
  /\ out = NoOut
  /\ ServiceInit

RevNext ==
  \E i \in Slots :
    \/ WebhookDelivers(i)
    \/ ReadOk(i)
    \/ ReadError(i)
    \/ WriteOk(i)
    \/ WriteError(i)
    \/ Return(i)

RevSpec == RevInit /\ [][RevNext]_vars

\* ------------------------------------------------------------------ rate limiter alone
\* applyRateLimit('jira') from its call to its return or to its wait.
RateLimitCall(c) ==
  /\ rateCalls[c].pc = "idle"
  /\ LET l == refill(limiter, clock)
     IN /\ limiter' = takeToken(l)
        /\ rateCalls' = [rateCalls EXCEPT ![c] =
             [pc |-> IF l.tokens <= 0 THEN "wait" ELSE "done",
              due |-> clock + RetryAfter, found |-> l.tokens,
              left |-> takeToken(l).tokens, waits |-> 0]]
  /\ UNCHANGED <<handlerVars, pureVars, clock, queueVars>>

\* The setTimeout of a waiting call fired: limiter.tokens = 1, and it returns.
RateLimitWaitOver(c) ==
  /\ rateCalls[c].pc = "wait"
  /\ clock >= rateCalls[c].due
  /\ limiter' = [limiter EXCEPT !.tokens = 1]
  /\ rateCalls' = [rateCalls EXCEPT ![c].pc = "done", ![c].waits = @ + 1]
  /\ UNCHANGED <<handlerVars, pureVars, clock, queueVars>>

\* The caller has gone on; the next call can be made.
RateLimitReturn(c) ==
  /\ rateCalls[c].pc = "done"
  /\ rateCalls' = [rateCalls EXCEPT ![c] = NoRateCall]
  /\ UNCHANGED <<handlerVars, pureVars, limiter, clock, queueVars>>

ClockAdvance ==
  /\ \E d \in Advances : clock + d <= MaxClock /\ clock' = clock + d
  /\ UNCHANGED <<handlerVars, pureVars, limiter, rateCalls, queueVars>>

RateInit ==
  /\ syncLocks = {}
  /\ inv = [i \in Slots |-> Idle]
  /\ issues = <<>>
  /\ store = MkStore(<<>>, <<>>)
  /\ notif = 0
  /\ timer = NoTimer
  /\ webhooks = {}
  /\ arg = NoArg
  /\ out = NoOut
  /\ ServiceInit

RateNext ==
  \/ ClockAdvance
  \/ \E c \in RateCalls :
       \/ RateLimitCall(c)
       \/ RateLimitWaitOver(c)
       \/ RateLimitReturn(c)

RateSpec == RateInit /\ [][RateNext]_vars

\* ------------------------------------------------------------------ project creation
\* A project key is a sequence of characters; hasKey = FALSE is a
\* configuration without a key.
MaxKeyLen == 3       \* keys of every length up to this are tried

KeyChars == {"A", "Z", "0", "9", "a", "-"}

UpperAlnum == {"A", "B", "C", "D", "E", "F", "G", "H", "I", "J", "K", "L", "M",
               "N", "O", "P", "Q", "R", "S", "T", "U", "V", "W", "X", "Y", "Z",
               "0", "1", "2", "3", "4", "5", "6", "7", "8", "9"}

\* The key of the project-creation test, a key of ten characters and one of
\* eleven.
TESTINT == <<"T", "E", "S", "T", "I", "N", "T">>

ProjectKeys ==
  UNION {[1..n -> KeyChars] : n \in 0..MaxKeyLen}
    \cup {TESTINT, TESTINT \o <<"0", "0", "0">>,
          TESTINT \o <<"0", "0", "0", "0">>}

ProjectConfigs ==
  [name : {Absent, "", "Test Project Integration"}, hasKey : {TRUE},
   key : ProjectKeys]
    \cup [name : {Absent, "Invalid"}, hasKey : {FALSE}, key : {<<>>}]

\* String.prototype.toUpperCase on the characters of a key.
UpperChar(ch) == IF ch = "a" THEN "A" ELSE ch

KeyToUpperCase(key) == [k \in 1..Len(key) |-> UpperChar(key[k])]

\* /^[A-Z0-9]{2,10}$/.test(key)
KeyPattern(key) ==
  /\ Len(key) >= 2
  /\ Len(key) <= 10
  /\ \A k \in 1..Len(key) : key[k] \in UpperAlnum

\* validateProjectConfig without the test of the key's pattern.
validateProjectConfigNoPattern(config) ==
  IF ~Truthy(config.name) \/ ~config.hasKey \/ config.key = <<>>
  THEN "Missing required project fields"
  ELSE "ok"

\* validateProjectConfig: the message of the error it throws, or "ok".
validateProjectConfig(config) ==
  IF ~Truthy(config.name) \/ ~config.hasKey \/ config.key = <<>>
  THEN "Missing required project fields"
  ELSE IF ~KeyPattern(config.key)
  THEN "Project key must be 2-10 uppercase alphanumeric characters"
  ELSE "ok"

\* createProject(projectConfig): whether it threw, the Tracker calls made up
\* to the creation of the project, and jiraProject.key of the ecosystem it
\* returned.  The Tracker answers the create call with the project it was
\* asked for, or fails.
createProject(projectConfig, trackerOk) ==
  IF validateProjectConfig(projectConfig) # "ok"
  THEN [fn |-> "createProject", threw |-> TRUE, calls |-> <<>>, key |-> <<>>]
  ELSE [fn |-> "createProject", threw |-> ~trackerOk,
        calls |-> <<[name |-> "mcp__atlassian__jira_create_project",
                     key |-> KeyToUpperCase(projectConfig.key)]>>,
        key |-> IF trackerOk THEN KeyToUpperCase(projectConfig.key) ELSE <<>>]

CallCreateProject ==
  /\ out.fn = "none"
  /\ out' = createProject(arg.config, arg.trackerOk)
  /\ UNCHANGED <<handlerVars, arg, serviceVars>>

ProjectInit ==
  /\ syncLocks = {}
  /\ inv = [i \in Slots |-> Idle]
  /\ issues = <<>>
  /\ store = MkStore(<<>>, <<>>)
  /\ notif = 0
  /\ timer = NoTimer
  /\ webhooks = {}
  /\ arg \in [config : ProjectConfigs, trackerOk : BOOLEAN]
  /\ out = NoOut
  /\ ServiceInit

ProjectNext == CallCreateProject

ProjectSpec == ProjectInit /\ [][ProjectNext]_vars

\* ------------------------------------------------------------------ sync queue alone
\* The while loop of processSyncQueue takes the head of a queue that is not
\* empty and calls processSyncItem; on an empty queue the finally block ends
\* the drain.
DrainLoop(d, queue, log) ==
  IF queue # <<>>
  THEN /\ syncQueue' = Tail(queue)
       /\ processingSync' = TRUE
       /\ drains' = [drains EXCEPT ![d] = [pc |-> "item", item |-> Head(queue).id]]
       /\ queueLog' = [log EXCEPT !.handed = Append(@, Head(queue))]
  ELSE /\ syncQueue' = queue
       /\ processingSync' = FALSE
       /\ drains' = [drains EXCEPT ![d] = NoDrain]
       /\ queueLog' = log

\* processSyncQueue entering its loop without setting processingSync.
processSyncQueueNoFlag(d, queue, log) ==
  IF processingSync \/ queue = <<>>
  THEN /\ syncQueue' = queue
       /\ queueLog' = log
       /\ UNCHANGED <<processingSync, drains>>
  ELSE /\ syncQueue' = Tail(queue)
       /\ processingSync' = FALSE
       /\ drains' = [drains EXCEPT ![d] = [pc |-> "item", item |-> Head(queue).id]]
       /\ queueLog' = [log EXCEPT !.handed = Append(@, Head(queue))]

\* processSyncQueue from its call to its first await or its return.
processSyncQueue(d, queue, log) ==
  IF processingSync \/ queue = <<>>
  THEN /\ syncQueue' = queue
       /\ queueLog' = log
       /\ UNCHANGED <<processingSync, drains>>
  ELSE DrainLoop(d, queue, log)

\* syncTagToBoard(tag, tasks): the item is pushed, and the queue is processed
\* unless that is going on already.
syncTagToBoard(d) ==
  /\ queueLog.enqueued < MaxItems
  /\ drains[d].pc = "idle"
  /\ \E tag \in TagNames :
       LET item  == [id |-> queueLog.enqueued + 1, type |-> "tag-to-board",
                     tag |-> tag]
           queue == Append(syncQueue, item)
           log   == [queueLog EXCEPT
                       !.enqueued = @ + 1,
                       !.queuedBehind = IF processingSync THEN @ \cup {item.id}
                                        ELSE @]
       IN IF ~processingSync
          THEN processSyncQueue(d, queue, log)
          ELSE /\ syncQueue' = queue
               /\ queueLog' = log
               /\ UNCHANGED <<processingSync, drains>>
  /\ UNCHANGED <<handlerVars, pureVars, rateVars>>

\* The setInterval callback of startSyncProcessor, when it has work to do.
IntervalTick(d) ==
  /\ drains[d].pc = "idle"
  /\ ~processingSync
  /\ Len(syncQueue) > 0
  /\ processSyncQueue(d, syncQueue, queueLog)
  /\ UNCHANGED <<handlerVars, pureVars, rateVars>>

\* processSyncItem resolved: the loop goes on.
ItemOk(d) ==
  /\ drains[d].pc = "item"
  /\ DrainLoop(d, syncQueue, queueLog)
  /\ UNCHANGED <<handlerVars, pureVars, rateVars>>

\* processSyncItem threw without the finally block: the flag stays set.
ItemErrorNoFinally(d) ==
  /\ drains[d].pc = "item"
  /\ drains' = [drains EXCEPT ![d] = NoDrain]
  /\ queueLog' = [queueLog EXCEPT !.raised = @ \cup {drains[d].item}]
  /\ UNCHANGED <<syncQueue, processingSync>>
  /\ UNCHANGED <<handlerVars, pureVars, rateVars>>

\* processSyncItem threw: the catch block logs, the finally block resets
\* processingSync, and the rest of the queue stays.
ItemError(d) ==
  /\ drains[d].pc = "item"
  /\ processingSync' = FALSE
  /\ drains' = [drains EXCEPT ![d] = NoDrain]
  /\ queueLog' = [queueLog EXCEPT !.raised = @ \cup {drains[d].item}]
  /\ UNCHANGED syncQueue
  /\ UNCHANGED <<handlerVars, pureVars, rateVars>>

QueueInit ==
  /\ syncLocks = {}
  /\ inv = [i \in Slots |-> Idle]
  /\ issues = <<>>
  /\ store = MkStore(<<>>, <<>>)
  /\ notif = 0
  /\ timer = NoTimer
  /\ webhooks = {}
  /\ arg = NoArg
  /\ out = NoOut
  /\ ServiceInit

QueueStep(d) ==
  \/ syncTagToBoard(d)
  \/ IntervalTick(d)
  \/ ItemOk(d)
  \/ ItemError(d)

QueueNext == \E d \in Drains : QueueStep(d)

\* processSyncItem settles, and the interval keeps ticking.
QueueSpec ==
  /\ QueueInit
  /\ [][QueueNext]_vars
  /\ \A d \in Drains : WF_vars(ItemOk(d) \/ ItemError(d))
  /\ WF_vars(\E d \in Drains : IntervalTick(d))

\* ------------------------------------------------------------------ direct calls
\* The Tag Classifier and the Field Mapper are pure: a caller may apply them
\* to any task and any value.
MaxTags == 2         \* tags of a task passed to the Tag Classifier

\* The tags "cc-dev:proj", "cc-dev:x", "cc-dev:", "jira:x", "atlassian:x"
\* and "docs".
PureTags ==
  {Tag("cc-dev", "proj"), Tag("cc-dev", "x"), Tag("cc-dev", ""),
   Tag("jira", "x"), Tag("atlassian", "x"), <<"docs">>}

TagLists == UNION {[1..n -> PureTags] : n \in 0..MaxTags}

\* Tasks with every tag list, and one without a tags collection.
PureTasks ==
  {MkTask("p-1", tags, TRUE, "pending") : tags \in TagLists}
    \cup {MkTask("p-1", <<>>, FALSE, "pending")}

\* Values passed to the mapping functions: the keys of the five tables in
\* some spellings, unknown strings, the empty string and a missing value.
MapInputs ==
  {Absent, "", "unknown", "constructor", "toString",
   "epic", "EPIC", "story", "task", "bug", "Bug", "research",
   "highest", "high", "High", "medium", "low", "LOW", "lowest",
   "pending", "in_progress", "in-progress", "review", "REVIEW", "done",
   "Done", "completed", "cancelled",
   "To Do", "In Progress", "Review", "Closed",
   "Highest", "Medium", "Low", "Lowest"}

\* The call fn(arg) returned.
Returned(fn, bool, str, groups) ==
  /\ out' = [fn |-> fn, bool |-> bool, str |-> str, groups |-> groups]
  /\ UNCHANGED <<syncLocks, inv, issues, store, loopVars, arg, serviceVars>>

CallShouldSyncTask ==
  /\ out.fn = "none"
  /\ Returned("shouldSyncTask", shouldSyncTask(arg.task), Absent, <<>>)

CallExtractProjectKeyFromTask ==
  /\ out.fn = "none"
  /\ Returned("extractProjectKeyFromTask", FALSE,
              extractProjectKeyFromTask(arg.task), <<>>)

\* groupTasksByProject of the task between one of project PROJ and one
\* without a cc-dev: tag.
CallGroupTasksByProject ==
  /\ out.fn = "none"
  /\ Returned("groupTasksByProject", FALSE, Absent,
              groupTasksByProject(<<T1, arg.task, T2>>))

CallMapTaskTypeToIssueType ==
  /\ out.fn = "none"
  /\ Returned("mapTaskTypeToIssueType", FALSE,
              mapTaskTypeToIssueType(arg.value), <<>>)

CallMapTaskPriorityToJiraPriority ==
  /\ out.fn = "none"
  /\ Returned("mapTaskPriorityToJiraPriority", FALSE,
              mapTaskPriorityToJiraPriority(arg.value), <<>>)

CallMapTaskStatusToJiraStatus ==
  /\ out.fn = "none"
  /\ Returned("mapTaskStatusToJiraStatus", FALSE,
              mapTaskStatusToJiraStatus(arg.value), <<>>)

CallMapJiraStatusToTaskStatus ==
  /\ out.fn = "none"
  /\ Returned("mapJiraStatusToTaskStatus", FALSE,
              mapJiraStatusToTaskStatus(arg.value), <<>>)

CallMapJiraPriorityToTaskPriority ==
  /\ out.fn = "none"
  /\ Returned("mapJiraPriorityToTaskPriority", FALSE,
              mapJiraPriorityToTaskPriority(arg.value), <<>>)

\* A task status sent to the Tracker and read back.
CallStatusRoundTrip ==
  /\ out.fn = "none"
  /\ Returned("statusRoundTrip", FALSE,
              mapJiraStatusToTaskStatus(mapTaskStatusToJiraStatus(arg.value)), <<>>)

PureInit ==
  /\ syncLocks = {}
  /\ inv = [i \in Slots |-> Idle]
  /\ issues = <<>>
  /\ store = MkStore(<<>>, <<>>)
  /\ notif = 0
  /\ timer = NoTimer
  /\ webhooks = {}
  /\ arg \in [task : PureTasks, value : MapInputs]
  /\ out = NoOut
  /\ ServiceInit

PureNext ==
  \/ CallShouldSyncTask
  \/ CallExtractProjectKeyFromTask
  \/ CallGroupTasksByProject
  \/ CallMapTaskTypeToIssueType
  \/ CallMapTaskPriorityToJiraPriority
  \/ CallMapTaskStatusToJiraStatus
  \/ CallMapJiraStatusToTaskStatus
  \/ CallMapJiraPriorityToTaskPriority
  \/ CallStatusRoundTrip

PureSpec == PureInit /\ [][PureNext]_vars

\* ================================================================== claims
Acquired(r) == r.acquired
Skipped(r) == r.pc = "done" /\ ~r.acquired
SyncPcs == {"find", "update", "transition", "create"}
HasSignal(r, name) == \E k \in 1..Len(r.signals) : r.signals[k].name = name
Issued(r, op, id) == \E k \in 1..Len(r.calls) : r.calls[k] = <<op, id>>

\* C1: for one tag name, at most one invocation of handleTagUpdate is between
\* acquiring the lock and finishing its batch at any time.
C1_TagSyncMutualExclusion ==
  \A i \in Slots, j \in Slots :
    (/\ i # j
     /\ inv[i].kind = "tag" /\ inv[j].kind = "tag"
     /\ inv[i].tagName = inv[j].tagName
     /\ Acquired(inv[i]) /\ Acquired(inv[j]))
    => ~(InFlight(inv[i]) /\ InFlight(inv[j]))

\* C2: while an invocation that acquired its key has not returned, the key is
\* in syncLocks, and a key leaves syncLocks only in the returning step of an
\* invocation that acquired it.
C2_LockOwnership ==
  [][/\ \A i \in Slots :
          (Acquired(inv'[i]) /\ InFlight(inv'[i])) => inv'[i].key \in syncLocks'
     /\ \A key \in syncLocks \ syncLocks' :
          \E i \in Slots : /\ inv[i].key = key /\ Acquired(inv[i])
                           /\ InFlight(inv[i]) /\ inv'[i].pc = "done"]_vars

\* C3: when an invocation that acquired its key returns (normally, early or
\* after an error), the key is not in syncLocks; when no invocation is in
\* flight, syncLocks is empty.
C3_LockReleasedOnEveryExit ==
  [][/\ \A i \in Slots :
          (inv[i].pc # "done" /\ inv'[i].pc = "done" /\ Acquired(inv'[i]))
          => inv'[i].key \notin syncLocks'
     /\ (\A i \in Slots : ~InFlight(inv'[i])) => syncLocks' = {}]_vars

\* C3 witness: an invocation that acquired its key has returned after an
\* error and its key is not held.
C3_Witness ==
  \E i \in Slots :
    /\ inv[i].pc = "done" /\ Acquired(inv[i])
    /\ (HasSignal(inv[i], "task:sync:error") \/ HasSignal(inv[i], "jira:sync:error"))
    /\ inv[i].key \notin syncLocks

\* C4: an invocation that returns early, because its key is held or the issue
\* has no cross-reference, leaves syncLocks as it found it, makes no Tracker
\* call and no TaskStore access, and emits no signal.
C4_SkippedInvocationHasNoEffect ==
  [][\A i \in Slots :
       (inv[i].pc = "idle" /\ Skipped(inv'[i]))
       => /\ syncLocks' = syncLocks
          /\ inv'[i].calls = <<>>
          /\ inv'[i].storeOps = <<>>
          /\ inv'[i].signals = <<>>]_vars

\* C5: two task syncs of the same syncable task, one after the other with no
\* other handler running and no failing call, do not both issue a create call.
C5_TaskSyncIdempotent ==
  \A i \in Slots, j \in Slots :
    (/\ i # j
     /\ inv[i].kind = "task" /\ inv[j].kind = "task"
     /\ inv[i].pc = "done" /\ inv[j].pc = "done"
     /\ inv[i].task.id = inv[j].task.id
     /\ inv[i].alone /\ inv[j].alone
     /\ ~inv[i].erred /\ ~inv[j].erred)
    => ~(/\ Issued(inv[i], "create", inv[i].task.id)
         /\ Issued(inv[j], "create", inv[j].task.id))

\* C6: a tag sync and a task sync are never both inside the find-then-create
\* or find-then-update sequence of the same task id.
C6_PerTaskExclusionAcrossEntryPoints ==
  \A i \in Slots, j \in Slots :
    (/\ inv[i].kind = "tag" /\ inv[j].kind = "task"
     /\ inv[i].pc \in SyncPcs /\ inv[j].pc \in SyncPcs)
    => inv[i].task.id # inv[j].task.id

\* C8: a tag sync that got past the lock and has left its loops has attempted
\* the sync of every syncable task of every project group, whichever of them
\* failed.
C8_PartialFailureIsolation ==
  \A i \in Slots :
    (inv[i].kind = "tag" /\ Acquired(inv[i]) /\ inv[i].pc \in {"boards", "done"})
    => \A g \in 1..Len(groupTasksByProject(filterSyncableTasks(inv[i].tasks))) :
         LET group == groupTasksByProject(filterSyncableTasks(inv[i].tasks))[g]
         IN \A t \in 1..Len(group.tasks) :
              Issued(inv[i], "find", group.tasks[t].id)

\* C8 witness: a tag sync ended in which the first task failed and the tasks
\* after it, in the same group and in the next one, were attempted.
C8_Witness ==
  \E i \in Slots :
    /\ inv[i].kind = "tag" /\ inv[i].pc = "done"
    /\ "t-1" \in inv[i].failed
    /\ Issued(inv[i], "find", "t-4")
    /\ Issued(inv[i], "find", "t-2")

\* C9: when a tag sync has finished, every task whose sync failed in it has
\* had a task:sync:error signal with its id.
C9_PerTaskFailureSignalled ==
  \A i \in Slots :
    (inv[i].kind = "tag" /\ inv[i].pc = "done")
    => \A id \in inv[i].failed :
         \E k \in 1..Len(inv[i].signals) :
           /\ inv[i].signals[k].name = "task:sync:error"
           /\ inv[i].signals[k].taskId = id

\* C10: a task sync of a syncable task during which a Tracker call failed
\* ends with exactly one signal, task:sync:error with the task id.
C10_TaskSyncFailureSignalled ==
  \A i \in Slots :
    (/\ inv[i].kind = "task" /\ inv[i].pc = "done" /\ Acquired(inv[i])
     /\ shouldSyncTask(inv[i].task) /\ inv[i].erred)
    => /\ Len(inv[i].signals) = 1
       /\ inv[i].signals[1].name = "task:sync:error"
       /\ inv[i].signals[1].taskId = inv[i].task.id

\* In a task sync, which handles one task, the calls it issued tell which call
\* failed: a failed update ends the sync, and a failed search sends it to the
\* create path although the Tracker holds an issue for the task.
TransitionFailed(r) == r.erred /\ Issued(r, "transition", r.task.id)

FindFailed(r) ==
  /\ r.erred /\ r.pc # "find"
  /\ Issued(r, "find", r.task.id) /\ ~Issued(r, "update", r.task.id)
  /\ TrackerSearch(issues, r.task.id) # {}

\* C11: a task sync on the update path whose status-transition call failed
\* ends with a task:sync:error signal and without task:synced.
C11_FailedTransitionReported ==
  \A i \in Slots :
    (inv[i].kind = "task" /\ inv[i].pc = "done" /\ TransitionFailed(inv[i]))
    => /\ HasSignal(inv[i], "task:sync:error")
       /\ ~HasSignal(inv[i], "task:synced")

\* C12: a task sync whose search call failed for a task that has an issue
\* issues no create call and ends with a task:sync:error signal.
C12_FailedLookupIsNotNotFound ==
  \A i \in Slots :
    (inv[i].kind = "task" /\ FindFailed(inv[i]))
    => /\ ~Issued(inv[i], "create", inv[i].task.id)
       /\ (inv[i].pc = "done" => HasSignal(inv[i], "task:sync:error"))

\* A tag with one of the three sync prefixes, and a task without any.
HasSyncPrefix(tag) ==
  Len(tag) >= 2 /\ tag[1] \in {"cc-dev", "atlassian", "jira"}

NotSyncable(task) ==
  \/ ~task.hasTags
  \/ task.tags = <<>>
  \/ \A k \in 1..Len(task.tags) : ~HasSyncPrefix(task.tags[k])

\* C13: handleTaskUpdate of a task that is not syncable returns at once,
\* having made no Tracker call, emitted no signal and raised no error, and
\* syncLocks is as it was before the call.
C13_NonSyncableTaskIsNoOp ==
  [][\A i \in Slots :
       (inv[i].pc = "idle" /\ inv'[i].kind = "task" /\ NotSyncable(inv'[i].task))
       => /\ inv'[i].pc = "done"
          /\ inv'[i].calls = <<>>
          /\ inv'[i].signals = <<>>
          /\ inv'[i].failed = {}
          /\ syncLocks' = syncLocks]_vars

\* C14: shouldSyncTask is false for a task with no tags collection or an empty
\* one, and otherwise true exactly when some tag starts with cc-dev:,
\* atlassian: or jira:.
C14_ShouldSyncTask ==
  out.fn = "shouldSyncTask"
  => /\ (~arg.task.hasTags \/ arg.task.tags = <<>>) => ~out.bool
     /\ (arg.task.hasTags /\ arg.task.tags # <<>>)
        => (out.bool <=> \E k \in 1..Len(arg.task.tags) :
                           HasSyncPrefix(arg.task.tags[k]))

\* C14 witness: shouldSyncTask returned true for the tags docs, jira:x.
C14_Witness ==
  /\ out.fn = "shouldSyncTask" /\ out.bool
  /\ arg.task.tags = <<<<"docs">>, Tag("jira", "x")>>

IsCcDev(tag) == Len(tag) >= 2 /\ tag[1] = "cc-dev"

\* The key the claim gives a list of tags: the upper-cased second segment of
\* the first cc-dev: tag, ADAPT without one.
IsDerivedKey(key, tags) ==
  IF \E k \in 1..Len(tags) : IsCcDev(tags[k])
  THEN \E k \in 1..Len(tags) :
         /\ IsCcDev(tags[k])
         /\ \A j \in 1..(k - 1) : ~IsCcDev(tags[j])
         /\ key = ToUpperCase(tags[k][2])
  ELSE key = "ADAPT"

InGroup(groups, key, task) ==
  \E g \in 1..Len(groups) :
    /\ groups[g].key = key
    /\ \E t \in 1..Len(groups[g].tasks) : groups[g].tasks[t] = task

InSomeGroup(groups, task) ==
  \E g \in 1..Len(groups) :
    \E t \in 1..Len(groups[g].tasks) : groups[g].tasks[t] = task

\* C15: for every task, extractProjectKeyFromTask yields the upper-cased
\* second segment of the first cc-dev: tag, and ADAPT when no tag has that
\* prefix; groupTasksByProject places every task without a cc-dev: tag in
\* group ADAPT.
C15_ProjectKeyDerivation ==
  /\ out.fn = "extractProjectKeyFromTask" => IsDerivedKey(out.str, arg.task.tags)
  /\ (/\ out.fn = "groupTasksByProject"
      /\ \A k \in 1..Len(arg.task.tags) : ~IsCcDev(arg.task.tags[k]))
     => InGroup(out.groups, "ADAPT", arg.task)

\* C15 as amended: the same for every task that has a tags collection; for a
\* task without one, extractProjectKeyFromTask yields no key and
\* groupTasksByProject places the task in no group.
C15_ProjectKeyDerivationWithTags ==
  /\ out.fn = "extractProjectKeyFromTask"
     => IF arg.task.hasTags THEN IsDerivedKey(out.str, arg.task.tags)
                            ELSE out.str = Absent
  /\ out.fn = "groupTasksByProject"
     => IF ~arg.task.hasTags THEN ~InSomeGroup(out.groups, arg.task)
        ELSE (\A k \in 1..Len(arg.task.tags) : ~IsCcDev(arg.task.tags[k]))
             => InGroup(out.groups, "ADAPT", arg.task)

\* C15 witness: a task tagged jira:x, then cc-dev:x got the key X.
C15_Witness ==
  /\ out.fn = "extractProjectKeyFromTask" /\ out.str = "X"
  /\ arg.task.tags = <<Tag("jira", "x"), Tag("cc-dev", "x")>>

\* C16: a task sync without project override of a syncable task that has no
\* cc-dev: tag and no issue, in which no Tracker call failed, has issued a
\* create call, the Tracker holds an issue of project ADAPT, and the sync
\* ended with task:synced.
C16_CreatePathUsesDerivedKey ==
  \A i \in Slots :
    (/\ inv[i].kind = "task" /\ inv[i].pc = "done" /\ Acquired(inv[i])
     /\ ~NotSyncable(inv[i].task)
     /\ \A k \in 1..Len(inv[i].task.tags) : ~IsCcDev(inv[i].task.tags[k])
     /\ ~inv[i].erred
     /\ ~Issued(inv[i], "update", inv[i].task.id))
    => /\ Issued(inv[i], "create", inv[i].task.id)
       /\ \E k \in 1..Len(issues) : issues[k].project = "ADAPT"
       /\ HasSignal(inv[i], "task:synced")

\* The issue types and priorities of the specification's table.
IssueTypeTable ==
  [epic |-> "Epic", story |-> "Story", task |-> "Task", bug |-> "Bug",
   research |-> "Research"]

PriorityTable ==
  [highest |-> "Highest", high |-> "High", medium |-> "Medium", low |-> "Low",
   lowest |-> "Lowest"]

\* C17: the issue a create call of a sync makes has the resolved project key
\* (the override of a tag sync, else the key derived from the tags), summary
\* = title, else summary; description = description, else details, else the
\* empty string; the mapped issue type, Task by default; the mapped
\* priority, Medium by default.  Title Fix bug, priority high and no type give
\* summary Fix bug, priority High and issue type Task.
C17_FullCreatePayload ==
  [][\A i \in Slots :
       (/\ inv[i].pc = "create" /\ inv'[i] # inv[i]
        /\ Len(issues') = Len(issues) + 1)
       => LET task == inv[i].task
              made == issues'[Len(issues')]
          IN /\ IF inv[i].kind = "tag" THEN made.project = inv[i].projectKey
                ELSE IsDerivedKey(made.project, task.tags)
             /\ made.summary = (IF Truthy(task.title) THEN task.title
                                ELSE task.summary)
             /\ made.description =
                  (IF Truthy(task.description) THEN task.description
                   ELSE IF Truthy(task.details) THEN task.details ELSE "")
             /\ made.issue_type =
                  (IF ToLowerCase(task.type) \in DOMAIN IssueTypeTable
                   THEN IssueTypeTable[ToLowerCase(task.type)] ELSE "Task")
             /\ made.priority =
                  (IF ToLowerCase(task.priority) \in DOMAIN PriorityTable
                   THEN PriorityTable[ToLowerCase(task.priority)] ELSE "Medium")
             /\ (/\ task.title = "Fix bug" /\ task.priority = "high"
                 /\ task.type = Absent)
                => /\ made.summary = "Fix bug" /\ made.priority = "High"
                   /\ made.issue_type = "Task"]_vars

\* C17 witness: the tag sync has created the issue of the task that has a
\* summary and details but no title, description or priority.
C17_Witness ==
  \E k \in 1..Len(issues) :
    /\ issues[k].xref = Absent
    /\ issues[k].project = "PROJ" /\ issues[k].summary = "Fix later"
    /\ issues[k].description = "See log" /\ issues[k].issue_type = "Bug"
    /\ issues[k].priority = "Medium"

TaskStatusTable ==
  ("pending" :> "To Do") @@ ("in_progress" :> "In Progress") @@
  ("in-progress" :> "In Progress") @@ ("review" :> "Review") @@
  ("done" :> "Done") @@ ("completed" :> "Done") @@ ("cancelled" :> "Done")

Count(r, op, id) == Cardinality({k \in 1..Len(r.calls) : r.calls[k] = <<op, id>>})

\* C18: a sync that finds an issue for its task issues one update call; when
\* that call resolves, the issue has the task's summary, description and
\* mapped priority where the task has a non-empty value for them and is
\* otherwise unchanged, its status included; then one status-transition call
\* follows if and only if the task has a status, it is issued only after the
\* update call resolved, and it sets the mapped status.
C18_UpdatePathProtocol ==
  [][\A i \in Slots :
       LET r    == inv[i]
           r2   == inv'[i]
           task == r.task
           id   == r.task.id
       IN /\ (r.pc = "find" /\ r2.existing # 0)
             => /\ r2.pc = "update" /\ Count(r2, "update", id) = 1
                /\ Count(r2, "transition", id) = 0
          /\ (r.pc = "update" /\ r2.pc # "update" /\ r2.failed = r.failed)
             => LET old == issues[r.existing]
                    new == issues'[r.existing]
                IN /\ new = [old EXCEPT
                       !.summary = IF Truthy(task.title) THEN task.title
                                   ELSE IF Truthy(task.summary) THEN task.summary
                                   ELSE @,
                       !.description =
                          IF Truthy(task.description) THEN task.description
                          ELSE IF Truthy(task.details) THEN task.details ELSE @,
                       !.priority = IF Truthy(task.priority)
                                    THEN PriorityTable[task.priority] ELSE @]
                   /\ Count(r2, "update", id) = 1
                   /\ IF task.status # Absent
                      THEN /\ r2.pc = "transition"
                           /\ r2.calls = Append(r.calls, <<"transition", id>>)
                      ELSE Count(r2, "transition", id) = 0
          /\ Count(r2, "transition", id) > Count(r, "transition", id)
             => /\ r.pc = "update" /\ Count(r2, "transition", id) = 1
                /\ task.status # Absent
          /\ (r.pc = "transition" /\ r2.pc # "transition" /\ ~r2.erred)
             => issues'[r.existing].status = TaskStatusTable[task.status]]_vars

\* C18 witness: a task sync found the issue of its task and ended after one
\* update call followed by one status-transition call.
C18_Witness ==
  \E i \in Slots :
    /\ inv[i].kind = "task" /\ inv[i].pc = "done" /\ ~inv[i].erred
    /\ inv[i].calls = <<<<"find", "t-1">>, <<"update", "t-1">>,
                        <<"transition", "t-1">>>>
    /\ issues[inv[i].existing].summary = "Fix bug"

TrackerStatusTable ==
  ("To Do" :> "pending") @@ ("In Progress" :> "in_progress") @@
  ("Review" :> "review") @@ ("Done" :> "completed") @@ ("Closed" :> "completed")

TrackerPriorityTable ==
  [Highest |-> "highest", High |-> "high", Medium |-> "medium", Low |-> "low",
   Lowest |-> "lowest"]

\* The value the specification's table gives: the entry of the key, the
\* default for a value that is not a key.
TableValue(table, key, default) ==
  IF key \in DOMAIN table THEN table[key] ELSE default

\* C19: each of the five mapping functions returns the entry of the
\* specification's table for a key of the table (the task type in any case)
\* and the default for every other value, a missing one included.
C19_MappingTablesTotal ==
  /\ out.fn = "mapTaskTypeToIssueType"
     => out.str = TableValue(IssueTypeTable, ToLowerCase(arg.value), "Task")
  /\ out.fn = "mapTaskPriorityToJiraPriority"
     => ((arg.value \in DOMAIN PriorityTable
            \/ ToLowerCase(arg.value) \notin DOMAIN PriorityTable)
         => out.str = TableValue(PriorityTable, arg.value, "Medium"))
  /\ out.fn = "mapTaskStatusToJiraStatus"
     => ((arg.value \in DOMAIN TaskStatusTable
            \/ ToLowerCase(arg.value) \notin DOMAIN TaskStatusTable)
         => out.str = TableValue(TaskStatusTable, arg.value, "To Do"))
  /\ out.fn = "mapJiraStatusToTaskStatus"
     => out.str = TableValue(TrackerStatusTable, arg.value, "pending")
  /\ out.fn = "mapJiraPriorityToTaskPriority"
     => out.str = TableValue(TrackerPriorityTable, arg.value, "medium")

\* C20: a task status pending, in_progress, review or completed sent to the
\* Tracker and read back is the same status; cancelled comes back as
\* completed.
C20_StatusRoundTrip ==
  out.fn = "statusRoundTrip"
  => /\ (arg.value \in {"pending", "in_progress", "review", "completed"}
         => out.str = arg.value)
     /\ (arg.value = "cancelled" => out.str = "completed")

\* C20 witness: the round trip of cancelled returned completed.
C20_Witness ==
  out.fn = "statusRoundTrip" /\ arg.value = "cancelled" /\ out.str = "completed"

\* The tasks of the store under every tag, and the task with an id.
StoredTasks(tasksData) ==
  {tasksData.tags[tagName][k] :
     tagName \in {"master"}, k \in 1..Len(tasksData.tags.master)}
    \cup {tasksData.tags[tagName][k] :
            tagName \in {"feature"}, k \in 1..Len(tasksData.tags.feature)}

Stored(tasksData, id) == \E task \in StoredTasks(tasksData) : task.id = id

TaskOf(tasksData, id) == CHOOSE task \in StoredTasks(tasksData) : task.id = id

\* A reverse sync that got past its checks ends in this step without error.
ReverseSyncEnds(i) ==
  /\ inv[i].kind = "jira" /\ Acquired(inv[i])
  /\ inv[i].pc \in {"read", "write"} /\ inv'[i].pc = "done"
  /\ ~HasSignal(inv'[i], "jira:sync:error")

\* C21: when a reverse sync of an issue that names a stored task ends, the
\* task's title, description, status and priority are the issue's values
\* (status and priority mapped) where the issue has the field, and are what
\* they were where it has not.
C21_ReverseSyncFieldRule ==
  [][\A i \in Slots :
       (ReverseSyncEnds(i) /\ Stored(store, inv[i].taskId))
       => /\ Stored(store', inv[i].taskId)
          /\ LET old   == TaskOf(store, inv[i].taskId)
                 new   == TaskOf(store', inv[i].taskId)
                 issue == inv[i].issue
             IN /\ new.title = (IF issue.summary # Absent THEN issue.summary
                                ELSE old.title)
                /\ new.description =
                     (IF issue.description # Absent THEN issue.description
                      ELSE old.description)
                /\ new.status =
                     (IF issue.status # Absent
                      THEN TrackerStatusTable[issue.status] ELSE old.status)
                /\ new.priority =
                     (IF issue.priority # Absent
                      THEN TrackerPriorityTable[issue.priority]
                      ELSE old.priority)]_vars

\* The store after the step differs from the store before it at most in the
\* four synced fields of the task with this id and in the timestamp.
OnlyTaskChanged(id) ==
  \A tagName \in TagNames :
    /\ Len(store'.tags[tagName]) = Len(store.tags[tagName])
    /\ \A k \in 1..Len(store.tags[tagName]) :
         LET old == store.tags[tagName][k]
             new == store'.tags[tagName][k]
         IN IF old.id = id
            THEN [new EXCEPT !.title = old.title,
                             !.description = old.description,
                             !.status = old.status,
                             !.priority = old.priority] = old
            ELSE new = old

\* C22: the write of a reverse sync of task T changes nothing in the store
\* but T's title, description, status and priority and the timestamp.
C22_ReverseSyncFrame ==
  [][\A i \in Slots :
       (inv[i].kind = "jira" /\ inv[i].pc = "write" /\ inv'[i].pc = "done")
       => OnlyTaskChanged(inv[i].taskId)]_vars

\* C23: a reverse sync whose task id is stored under any tag finds the task:
\* after the file is read it goes on to write the task.
C23_LookupInWholeStore ==
  [][\A i \in Slots :
       (/\ inv[i].kind = "jira" /\ inv[i].pc = "read" /\ inv'[i].pc # "read"
        /\ ~inv'[i].threw
        /\ Stored(store, inv[i].taskId))
       => inv'[i].pc = "write"]_vars

\* C24: a reverse sync whose task id is nowhere in the store stops after the
\* read: it writes nothing, emits neither signal and its key is released.
C24_MissingTaskStops ==
  [][\A i \in Slots :
       (/\ inv[i].kind = "jira" /\ inv[i].pc = "read" /\ inv'[i].pc # "read"
        /\ ~inv'[i].threw
        /\ ~Stored(store, inv[i].taskId))
       => /\ inv'[i].pc = "done"
          /\ store' = store
          /\ "write" \notin {inv'[i].storeOps[k] : k \in 1..Len(inv'[i].storeOps)}
          /\ inv'[i].signals = <<>>
          /\ inv[i].key \notin syncLocks']_vars

\* The reverse sync's interface under given names: the key an invocation
\* adds is <lockKind>:<issue key>; an invocation that wrote the task emits
\* exactly one `synced` signal with issueKey and taskId, one whose read or
\* write threw emits exactly one `syncError` signal with issueKey and error,
\* and no invocation emits anything else.
Wrote(r) == "write" \in {r.storeOps[k] : k \in 1..Len(r.storeOps)}

ReverseSyncInterface(lockKind, synced, syncError) ==
  \A i \in Slots :
    /\ (inv[i].pc = "idle" /\ inv'[i].kind = "jira" /\ inv'[i].acquired)
       => LockKey(lockKind, inv'[i].issue.key) \in syncLocks'
    /\ (inv[i].kind = "jira" /\ InFlight(inv[i]) /\ inv'[i].pc = "done")
       => LET r == inv'[i]
          IN /\ Len(r.signals) <= 1
             /\ \A k \in 1..Len(r.signals) :
                  r.signals[k].name \in {synced, syncError}
             /\ r.threw
                => r.signals = <<[name |-> syncError, issueKey |-> r.issue.key,
                                  error |-> "error"]>>
             /\ (~r.threw /\ Wrote(r))
                => r.signals = <<[name |-> synced, issueKey |-> r.issue.key,
                                  taskId |-> r.taskId]>>

\* C25: the reverse sync's lock key is issue:<key>, its completion signal is
\* one issue:synced {issueKey, taskId}, its error signal is one
\* issue:sync:error {issueKey, error}, and it emits no other signal.
C25_InterfaceNames ==
  [][ReverseSyncInterface("issue", "issue:synced", "issue:sync:error")]_vars

\* C25, amended: the same with the names jira:<key>, jira:synced and
\* jira:sync:error.
C25_InterfaceNamesJira ==
  [][ReverseSyncInterface("jira", "jira:synced", "jira:sync:error")]_vars

\* A reverse sync wrote its task and ended with jira:synced; another one's
\* write threw and it ended with jira:sync:error.
C25_Witness ==
  \E i, j \in Slots :
    /\ inv[i].kind = "jira" /\ inv[i].pc = "done" /\ Wrote(inv[i])
    /\ ~inv[i].threw /\ inv[i].signals # <<>>
    /\ inv[j].kind = "jira" /\ inv[j].pc = "done" /\ Wrote(inv[j])
    /\ inv[j].threw /\ inv[j].signals # <<>>

\* The task the issue names is stored and has the issue's values.
Applied(tasksData, issue) ==
  /\ Stored(tasksData, issue.xref)
  /\ LET task == TaskOf(tasksData, issue.xref)
     IN /\ issue.summary # Absent => task.title = issue.summary
        /\ issue.description # Absent => task.description = issue.description
        /\ issue.status # Absent => task.status = TrackerStatusTable[issue.status]
        /\ issue.priority # Absent
           => task.priority = TrackerPriorityTable[issue.priority]

\* C26: when two reverse syncs with different keys and different tasks have
\* both written and ended without error, the store holds both updates.
C26_NoLostUpdate ==
  \A i, j \in Slots :
    (/\ i # j
     /\ \A k \in {i, j} : /\ inv[k].kind = "jira" /\ inv[k].pc = "done"
                           /\ Wrote(inv[k]) /\ ~inv[k].threw
     /\ inv[i].issue.key # inv[j].issue.key
     /\ inv[i].taskId # inv[j].taskId)
    => Applied(store, inv[i].issue) /\ Applied(store, inv[j].issue)

\* C27: the only timer that can be pending is the one the last notification
\* set (every earlier one was cancelled), so at most one is pending; while it
\* is pending no run has begun since that notification, and once it has
\* fired exactly one run has.
C27_Debounce ==
  /\ timer.pending \subseteq {timer.fileChangeTimeout}
  /\ Cardinality(timer.pending) <= 1
  /\ timer.pending # {} => timer.runs = 0
  /\ (timer.pending = {} /\ timer.fileChangeTimeout # 0) => timer.runs = 1

\* A burst of two notifications was handled and the one run after it began.
C27_Witness ==
  /\ timer.burst = 2
  /\ timer.pending = {}
  /\ timer.runs = 1
  /\ \E i \in Slots : inv[i].cycle = "timer"

\* A run of processTaskMasterUpdates whose read succeeded is over.
CycleOver(r) ==
  r.cycle # "none" /\ r.pc = "done" /\ r.todo = <<>> /\ ~r.threw

\* C28: a run of processTaskMasterUpdates that read the file has called
\* handleTagUpdate once for master and once for feature, in that order, each
\* with the task list the file held for that tag when the run read it,
\* whether or not a task of the first tag failed.
C28_CycleCoverage ==
  \A i \in Slots :
    CycleOver(inv[i])
    => /\ Len(inv[i].cycleTags) = 2
       /\ inv[i].cycleTags[1].tagName = "master"
       /\ inv[i].cycleTags[2].tagName = "feature"
       /\ \A k \in 1..2 :
            inv[i].cycleTags[k].tasks =
              inv[i].data.tags[inv[i].cycleTags[k].tagName]

\* A run started by the timer read the edited file, a task of master failed
\* and the run is over.
C28_Witness ==
  \E i \in Slots :
    /\ CycleOver(inv[i])
    /\ inv[i].cycle = "timer"
    /\ Len(inv[i].cycleTags) = 2
    /\ inv[i].cycleTags[2].afterFailure
    /\ Len(inv[i].data.tags.master) = 2

\* C29: while the cycle of initialize() is not over, no cycle started by a
\* notification runs.
C29_InitialSyncFirst ==
  \A i, j \in Slots :
    (inv[i].cycle = "initial" /\ ~(inv[i].pc = "done" /\ inv[i].todo = <<>>))
    => inv[j].cycle # "timer"

\* C30: every Tracker call of the forward sync (find, create, update,
\* transition) is issued right after an applyRateLimit of its own.
C30_RateLimitAroundEveryCall ==
  \A i \in Slots : inv[i].unlimited = {}

\* The tokens a bucket refilled by elapsed time has been credited t ms after
\* it was initialised, at most a bucketful.
TokensDue(t) == Min(Burst, (t * RequestsPerSecond) \div 1000)

\* C31: after every sequence of applyRateLimit calls the tokens credited since
\* initialisation, capped at burst, are those due for the time elapsed up to
\* the last call, however the calls divide that time.
C31_RefillByElapsedTime ==
  Min(Burst, limiter.credited) = TokensDue(limiter.lastRefill)

\* C37: the bucket holds between 0 and burst tokens; a call that has returned
\* waited once if it found no token, and did not wait and left one token
\* fewer than it found if it found one; a call that found a token never
\* waits.
C37_RateLimiterBounds ==
  /\ limiter.tokens >= 0
  /\ limiter.tokens <= Burst
  /\ \A c \in RateCalls :
       /\ rateCalls[c].pc = "wait" => rateCalls[c].found <= 0
       /\ rateCalls[c].pc = "done"
          => IF rateCalls[c].found <= 0
             THEN rateCalls[c].waits = 1
             ELSE /\ rateCalls[c].waits = 0
                  /\ rateCalls[c].left = rateCalls[c].found - 1

\* One call is in its wait, and the other was made during that wait, found a
\* refilled token and returned; the first then ends its wait.
C37_Witness ==
  \E c, d \in RateCalls :
    /\ rateCalls[c].pc = "done" /\ rateCalls[c].waits = 1
    /\ rateCalls[d].pc = "done" /\ rateCalls[d].found >= 1
    /\ limiter.lastRefill > rateCalls[c].due - RetryAfter
    /\ limiter.tokens = 1

\* A configuration with a name and a key of 2 to 10 upper-case letters and
\* digits.
ValidProjectConfig(config) ==
  /\ config.name \notin {Absent, ""}
  /\ config.hasKey
  /\ Len(config.key) \in 2..10
  /\ \A k \in 1..Len(config.key) : config.key[k] \in UpperAlnum

\* C32: createProject with a configuration that lacks name or key, or whose
\* key is not 2 to 10 upper-case alphanumerics, throws without a Tracker
\* call; when it returns for a valid configuration, jiraProject.key is the
\* requested key.
C32_ProjectValidation ==
  out.fn = "createProject"
  => IF ValidProjectConfig(arg.config)
     THEN ~out.threw => out.key = arg.config.key
     ELSE out.threw /\ out.calls = <<>>

\* createProject returned the ecosystem of the test's project.
C32_Witness ==
  /\ out.fn = "createProject"
  /\ arg.config.key = TESTINT
  /\ ~out.threw
  /\ out.key = TESTINT

\* The places (group, position) a task has in the groups.
PlacesOf(groups, task) ==
  {<<g, t>> \in (1..Len(groups)) \X (1..3) :
     t <= Len(groups[g].tasks) /\ groups[g].tasks[t] = task}

\* The position of a task in the list passed to groupTasksByProject.
InputPosition(tasks, task) == CHOOSE k \in 1..Len(tasks) : tasks[k] = task

RECURSIVE SumOfSizes(_)
SumOfSizes(groups) ==
  IF groups = <<>> THEN 0
  ELSE Len(Head(groups).tasks) + SumOfSizes(Tail(groups))

\* C33: groupTasksByProject of a list of syncable tasks puts every task in
\* exactly one group, the group of its derived key, keeps the input order
\* within each group, and the group sizes add up to the length of the list.
C33_GroupingIsPartition ==
  (out.fn = "groupTasksByProject" /\ shouldSyncTask(arg.task))
  => LET tasks == <<T1, arg.task, T2>>
     IN /\ \A k \in 1..3 : Cardinality(PlacesOf(out.groups, tasks[k])) = 1
        /\ SumOfSizes(out.groups) = 3
        /\ \A g \in 1..Len(out.groups) :
             \A t, u \in 1..Len(out.groups[g].tasks) :
               t < u => InputPosition(tasks, out.groups[g].tasks[t])
                          < InputPosition(tasks, out.groups[g].tasks[u])

\* The number of calls of syncTaskToJira an invocation made: each begins with
\* the search for the task's issue.
SyncsRun(r) == Cardinality({k \in 1..Len(r.calls) : r.calls[k][1] = "find"})

\* C34: a handleTagUpdate that acquired its lock and has returned emitted
\* nothing when its batch had no syncable task, and otherwise exactly one
\* signal, tag:synced, whose taskCount is the number of task syncs it ran.
C34_TagSyncedCount ==
  \A i \in Slots :
    (inv[i].kind = "tag" /\ inv[i].pc = "done" /\ Acquired(inv[i]))
    => IF filterSyncableTasks(inv[i].tasks) = <<>>
       THEN inv[i].signals = <<>>
       ELSE inv[i].signals = <<[name |-> "tag:synced",
                                tagName |-> inv[i].tagName,
                                taskCount |-> SyncsRun(inv[i])]>>

\* C35: when the search of a tag sync's task in group P finds no issue, the
\* task gets the tag cc-dev:<p> unless it has that tag already, and a create
\* call for project P is issued.
C35_TagSyncCreateUsesGroupKey ==
  [][\A i \in Slots :
       (/\ inv[i].kind = "tag" /\ inv[i].pc = "find"
        /\ (inv'[i].pc # "find" \/ inv'[i].calls # inv[i].calls)
        /\ inv'[i].pc # "update")
       => LET tags    == inv[i].task.tags
              tag     == Tag("cc-dev", ToLowerCase(inv[i].projectKey))
              present == \E k \in 1..Len(tags) : tags[k] = tag
          IN /\ inv'[i].pc = "create"
             /\ inv'[i].task.id = inv[i].task.id
             /\ inv'[i].task.tags = (IF present THEN tags ELSE Append(tags, tag))
             /\ extractProjectKeyFromTags(inv'[i].task.tags) = inv[i].projectKey
             /\ inv'[i].calls = Append(inv[i].calls, <<"create", inv[i].task.id>>)
    ]_vars

\* The store has the tasks it had at the start, under the same tags and in the
\* same order, each differing from then at most in title, description,
\* status and priority.
StoreFrame ==
  LET start == MkStore(<<T1, T3>>, <<T2>>)
  IN \A tagName \in TagNames :
       /\ Len(store.tags[tagName]) = Len(start.tags[tagName])
       /\ \A k \in 1..Len(start.tags[tagName]) :
            [store.tags[tagName][k] EXCEPT
               !.title = start.tags[tagName][k].title,
               !.description = start.tags[tagName][k].description,
               !.status = start.tags[tagName][k].status,
               !.priority = start.tags[tagName][k].priority]
              = start.tags[tagName][k]

\* C36: whatever tag syncs, task syncs and reverse syncs have run, the store
\* holds the same tasks, changed at most in title, description, status and
\* priority; no step of a tag sync or task sync changes the store, and none
\* of them has written the file.
C36_StoreFrame ==
  [][/\ StoreFrame'
     /\ store' # store
        => \E i \in Slots : inv[i].kind = "jira" /\ inv[i].pc = "write"
     /\ \A i \in Slots :
          inv'[i].kind \in {"tag", "task"} => ~Wrote(inv'[i])]_vars

\* A reverse sync has written t-1's new status while a tag sync that made
\* Tracker calls has ended.
C36_Witness ==
  /\ TaskOf(store, "t-1").status = "in_progress"
  /\ \E i, j \in Slots :
       /\ inv[i].kind = "jira" /\ inv[i].pc = "done" /\ Wrote(inv[i])
       /\ inv[j].kind = "tag" /\ inv[j].pc = "done" /\ inv[j].calls # <<>>

\* C38: at most one drain loop is active, processingSync is true exactly
\* while one is, and the items handed to processSyncItem so far are the
\* first ones enqueued, in enqueue order, each once.
C38_QueueExclusionAndOrder ==
  /\ Cardinality({d \in Drains : drains[d].pc = "item"}) <= 1
  /\ processingSync <=> (\E d \in Drains : drains[d].pc = "item")
  /\ Len(queueLog.handed) <= queueLog.enqueued
  /\ \A k \in 1..Len(queueLog.handed) : queueLog.handed[k].id = k

\* An item pushed during a drain was handed over after an earlier item's
\* processing threw and the interval started a new drain.
C38_Witness ==
  \E k \in queueLog.queuedBehind :
    /\ Len(queueLog.handed) >= k
    /\ \E j \in queueLog.raised : j < k

\* C39: every item enqueued is eventually handed to processSyncItem, and
\* processingSync always becomes false again.
C39_QueueLiveness ==
  /\ \A k \in 1..MaxItems :
       (queueLog.enqueued >= k) ~> (Len(queueLog.handed) >= k)
  /\ processingSync ~> ~processingSync

\* All items were handed over although the first one's processing threw while
\* a later one was already waiting in the queue.
C39_Witness ==
  /\ Len(queueLog.handed) = MaxItems
  /\ 1 \in queueLog.raised
  /\ 2 \in queueLog.queuedBehind
  /\ ~processingSync

\* C7: after one external edit the closed loop comes to rest: from some point
\* on there is no pending notification or timer, no undelivered issue change
\* and no sync in flight.
Quiescent ==
  /\ notif = 0
  /\ timer.pending = {}
  /\ webhooks = {}
  /\ \A i \in Slots : inv[i].pc = "idle"

====
